---- MODULE Spec2Model ----
(***************************************************************************)
(* Verification model of d-bee (src/src/storage.rs).                       *)
(*                                                                         *)
(* Page store (SimplePageHandler): the file is the 8-byte head cell        *)
(* followed by pages of PAGE_SIZE bytes.  The model keeps the file at the  *)
(* granularity of 8-byte little-endian words: a page is a sequence of      *)
(* PageWords words, a persisted page header is three words (id, next,      *)
(* used), the next pointer of a free page is word 1 of the page.           *)
(*                                                                         *)
(* File handler (SimpleFileHandler): threads executing write_at against    *)
(* the set of in-flight write ranges.                                      *)
(***************************************************************************)
EXTENDS Integers, Sequences, FiniteSets, TLC

\* ---------------------------------------------------------------- bounds
\* Number of 24-byte slots of a page (170 in the repository, where
\* PAGE_SIZE = 4096 = 170 * 24 + 16); slot 0 is the page's own header.
SlotsPerPage == 3
\* Largest page id the modelled file has room for.
MaxPage == 6
\* Largest number of alloc_page calls in one run.
MaxAllocs == 4
\* Largest number of page headers the caller keeps at one time.
MaxHeld == 2
\* Number of future pop_free results compared when two free lists are compared.
FreeDepth == 3

\* Number of threads calling write_at on one SimpleFileHandler.
Writers == 2
\* Largest offset and largest length of a write_at call.
MaxAt == 1
MaxLen == 2

\* Number of threads calling alloc_page on one SimplePageHandler.
AllocThreads == 2
\* Number of insert_row calls on the table.
MaxInserts == 4
\* Lengths in bytes of the names in the rows of the table.
ShortLen == 4
LongLen == 36
\* Longest list of column names and of values given to cols_to_row.
MaxCols == 3
\* Number of add_col_data calls on the schema table.
MaxAdds == 3
\* Threads that run commands on one executor, and commands they start.
ExecThreads == 2
MaxCommands == 4
\* Number of values a cursor hash is drawn from.
MaxHandles == 2
\* Connections the server accepts, messages their peers send, and workers.
MaxConns == 2
MaxSends == 2
SessionSends == 3
MaxQueryLen == 4
RegistryThreads == 2
LockThreads == 3
MaxLockCalls == 3
MaxRegistryCalls == 3
num_thread == 2

\* ------------------------------------------------------------- constants
WordSize == 8
HEAD_SIZE == 8
HeaderSize == 24
PAGE_SIZE == SlotsPerPage * HeaderSize + 16
PageWords == PAGE_SIZE \div WordSize
HeaderWords == HeaderSize \div WordSize

\* The flag bytes of requests, and the tokens of the reactor
QUERY_FLAG == 0
CURSOR_FLAG == 1
NEW_DATABASE_FLAG == 2
GET_KEY_FLAG == 3
TERMINATE_FLAG == 4
DELETE_DATABASE_FLAG == 5
TERMINATE == 2
FirstToken == 3

\* Option::None of the transient and optional header fields.
None == -1
\* A usize that wrapped below zero (release build): any value >= 2^63.
Huge == -2

PageIds == 0..MaxPage
ZeroPage == [w \in 1..PageWords |-> 0]

VARIABLES
    head,       \* bytes [0, 8) of the file: id of the first free page
    pages,      \* pages[id]: the PageWords words of page id
    held,       \* page headers the caller keeps from alloc_page
    ret,        \* call and result of the last page-store operation
    live,       \* ids handed out by alloc_page and not yet deallocated
    allocated,  \* ids returned by alloc_page since the store was created
    onlyAlloc,  \* TRUE while alloc_page is the only mutation so far
    pre,        \* view of the store, and freed, before the last alloc_page
    allocs,     \* number of alloc_page calls so far
    freed,      \* ids deallocated and not handed out again, oldest first
    accesses,   \* SimpleFileHandler.accesses: the in-flight write ranges
    fileBytes,  \* the bytes of the file behind the SimpleFileHandler
    wpc,        \* wpc[t]: where thread t is in write_at
    wcall,      \* wcall[t]: the (at, data_len) of thread t's write_at
    wdone,      \* wdone[t]: how many bytes thread t's pwrite has written
    rpc,        \* where the reading thread is in read_at
    rcall,      \* the (at, length) of the reading thread's read_at
    buffer,     \* the bytes the reading thread's pread has copied so far
    callers,    \* callers[t]: the locals of thread t inside alloc_page
    tret,       \* the result of the last table operation
    cursor,     \* the Cursor of the open scan, NoCursor if none is open
    yielded,    \* the rows the open or last scan has returned, in order
    inserts,    \* number of insert_row calls so far
    conv,       \* the last call of a conversion: its arguments and result
    schema,     \* Executor.schema: the file of the schema table
    tables,     \* Executor.tables: (name, col_data) of the handlers, in order
    cursors,    \* Executor.cursors: the entry registered under each hash
    dir,        \* the table files of the database directory, by table name
    ecall,      \* ecall[t]: where thread t is in its command, with its locals
    eret,       \* the last finished command and its result
    ecount,     \* number of commands started so far
    dropped,    \* col_data of the last successful DROP of each table
    pending,    \* pending of Server::start: type of each unauthorized token
    connections,  \* Server.connections: (database, type) of authorized tokens
    work,       \* Server.work: tokens and poison pills, the last one on top
    token_value,  \* the value of the token of the next accepted connection
    inbox,      \* inbox[token]: what the peer sent and the server has not read
    ready,      \* the tokens whose readiness the next poll reports
    events,     \* the events of the last poll that are not handled yet
    reactor,    \* where the thread of Server::start is
    workers,    \* workers[w]: where worker w is in handle_client, its locals
    sent,       \* sent[token]: the first byte of each response to the peer
    deregistered,  \* the tokens deregistered from the poll registry
    ran,        \* the last request a worker dispatched, and the function run
    sends,      \* number of messages the peers have sent so far
    databases,  \* DatabaseSchemaHandler.databases: the key of each database
    executors, \* Server.executors: the databases that have an executor
    database_rows,\* rows of the table of DatabaseSchemaHandler, (database_id, database_key)
    dcall,     \* per thread, its call of add_database or remove_database
    dcount,    \* calls of the registry started so far
    lcall,     \* per thread, the executor operation it is in and its next lock step
    lheld,     \* per thread, the locks of the executor it holds, oldest first
    lcount,    \* executor operations started so far in the lock model
    reported   \* per table, the rows whose INSERT of the two-step model reported success

storeVars == <<head, pages, held, ret, live, allocated, onlyAlloc, pre, allocs,
               freed>>
fileVars == <<accesses, fileBytes, wpc, wcall, wdone>>
readVars == <<rpc, rcall, buffer>>
\* The variables outside the page store, and outside the file handler
raceVars == <<callers>>
tableVars == <<tret, cursor, yielded, inserts>>
convVars == <<conv>>
execVars == <<schema, tables, cursors, dir, ecall, eret, ecount, dropped>>
srvVars == <<pending, connections, work, token_value, inbox, ready, events,
             reactor, workers, sent, deregistered, ran, sends, databases,
             executors>>
regVars == <<database_rows, dcall, dcount>>
lockVars == <<lcall, lheld, lcount>>
insertVars == <<reported>>
nonStoreVars == <<fileVars, readVars, raceVars, tableVars, convVars, execVars,
                  srvVars, regVars, lockVars, insertVars>>
nonFileVars == <<storeVars, raceVars, tableVars, convVars, execVars,
                 srvVars, regVars, lockVars, insertVars>>
vars == <<head, pages, held, ret, live, allocated, onlyAlloc, pre, allocs,
          freed, accesses, fileBytes, wpc, wcall, wdone, rpc, rcall, buffer,
          callers, tret, cursor, yielded, inserts, conv, schema, tables,
          cursors, dir, ecall, eret, ecount, dropped, pending, connections,
          work, token_value, inbox, ready, events, reactor, workers, sent,
          deregistered, ran, sends, databases, executors, database_rows, dcall, dcount, lcall, lheld, lcount, reported>>

Threads == 1..Writers

\* ------------------------------------------------------------ PageHeader
PageHeader(id, next, used, header_page_id, header_offset, previous_page_id) ==
    [id |-> id, used |-> used, next |-> next,
     header_page_id |-> header_page_id, header_offset |-> header_offset,
     previous_page_id |-> previous_page_id]

NoHeader == PageHeader(None, None, None, None, None, None)

\* impl TryFrom<Vec<u8>> for PageHeader: words (id, next, used), next 0 is None
HeaderFromWords(ws) ==
    PageHeader(ws[1], IF ws[2] = 0 THEN None ELSE ws[2], ws[3], None, None, None)

\* impl Into<Vec<u8>> for PageHeader
HeaderToWords(h) == <<h.id, IF h.next = None THEN 0 ELSE h.next, h.used>>

\* PageHeader::get_first
GetFirst == PageHeader(0, None, 0, 0, HeaderSize, 0)

\* ------------------------------------------------------------------ file
\* A file value: head cell, pages, and oob = a write fell outside MaxPage.
File(h, p) == [head |-> h, pages |-> p, oob |-> FALSE]

\* read_at(calculate_page_start(id), PAGE_SIZE): past-EOF bytes read as zero
ReadPage(f, id) == IF id \in PageIds THEN f.pages[id] ELSE ZeroPage

\* write_at(calculate_page_start(id), ws): overwrites the first Len(ws) words
WriteWords(f, id, ws) ==
    IF id \in PageIds
    THEN [f EXCEPT !.pages[id] =
            [w \in 1..PageWords |-> IF w <= Len(ws) THEN ws[w] ELSE @[w]]]
    ELSE [f EXCEPT !.oob = TRUE]

OwnHeader(f, id) == HeaderFromWords(SubSeq(ReadPage(f, id), 1, HeaderWords))

\* unsigned comparison a < b on usize values, Huge being >= 2^63
ULess(a, b) == IF a = Huge THEN FALSE ELSE IF b = Huge THEN TRUE ELSE a < b

\* push_free that links the page in behind the head instead of making it
\* the head
push_free_behind(f, id) ==
    LET after == ReadPage(f, f.head)[1]
        f1 == WriteWords(f, f.head, <<id>>)
    IN  WriteWords(f1, id, <<IF after = 0 THEN f.head + 1 ELSE after>>)

\* SimplePageHandler::push_free
push_free(f, id) ==
    LET next_word == f.head
        f1 == [f EXCEPT !.head = id]
    IN  WriteWords(f1, id, <<next_word>>)

\* pop_free that leaves the head cell alone at the tail of the free list
pop_free_stuck(f) ==
    LET first_page == f.head
        second_page == ReadPage(f, first_page)[1]
    IN  [file |-> [f EXCEPT !.head = IF second_page # 0 THEN second_page
                                     ELSE first_page],
         id |-> first_page]

\* SimplePageHandler::pop_free
pop_free(f) ==
    LET first_page == f.head
        second_page == ReadPage(f, first_page)[1]
    IN  [file |-> [f EXCEPT !.head = IF second_page # 0 THEN second_page
                                     ELSE first_page + 1],
         id |-> first_page]

\* ------------------------------------------------------------- iteration
Last(seq) == seq[Len(seq)]
Range(seq) == {seq[i] : i \in 1..Len(seq)}

\* Words of the 24-byte entry at byte offset off of a page
EntryWords(page, off) ==
    SubSeq(page, off \div WordSize + 1, off \div WordSize + HeaderWords)

\* Inner for-loop of iterate_headers_from over one header page: the offsets
\* initial, initial + 24, ... below own_header.used whose 24 bytes lie in
\* the page (bytes.get(..) is Some), each decoded with its lookup context.
HeadersInPage(f, current_page_id, previous_page_id, initial_header_offset) ==
    LET bytes == ReadPage(f, current_page_id)
        own_header == HeaderFromWords(SubSeq(bytes, 1, HeaderWords))
        Off(k) == initial_header_offset + (k - 1) * HeaderSize
        n == Cardinality({k \in 1..(SlotsPerPage + 1) :
                 /\ ULess(Off(k), own_header.used)
                 /\ Off(k) + HeaderSize <= PAGE_SIZE})
    IN  [k \in 1..n |->
            [HeaderFromWords(EntryWords(bytes, Off(k))) EXCEPT
                !.header_page_id = current_page_id,
                !.header_offset = Off(k),
                !.previous_page_id = previous_page_id]]

\* Outer loop that starts one entry too far in the chained header pages
RECURSIVE HeadersFromNoReset(_, _, _, _, _)
HeadersFromNoReset(f, current_page_id, previous_page_id, initial, fuel) ==
    LET hs == HeadersInPage(f, current_page_id, previous_page_id, initial)
        next == OwnHeader(f, current_page_id).next
    IN  IF next # None /\ fuel > 0
        THEN hs \o HeadersFromNoReset(f, next, current_page_id,
                                      initial + HeaderSize, fuel - 1)
        ELSE hs

\* Outer loop of iterate_headers_from with a callback that never stops:
\* follows own_header.next; fuel bounds the number of header pages walked.
RECURSIVE HeadersFrom(_, _, _, _, _)
HeadersFrom(f, current_page_id, previous_page_id, initial, fuel) ==
    LET hs == HeadersInPage(f, current_page_id, previous_page_id, initial)
        next == OwnHeader(f, current_page_id).next
    IN  IF next # None /\ fuel > 0
        THEN hs \o HeadersFrom(f, next, current_page_id, HeaderSize, fuel - 1)
        ELSE hs

\* The outer loop ends: some header page within fuel hops has no next.
RECURSIVE ChainEnds(_, _, _)
ChainEnds(f, current_page_id, fuel) ==
    LET next == OwnHeader(f, current_page_id).next
    IN  next = None \/ (fuel > 0 /\ ChainEnds(f, next, fuel - 1))

ChainFuel == MaxPage + 2

\* The headers iterate_headers_from(header, ..) passes to a callback that
\* never stops
AllHeaders(f, header) ==
    HeadersFrom(f, header.header_page_id, header.previous_page_id,
                header.header_offset, ChainFuel)

\* The walk cut after the first header of stop
UpToFirst(all, stop) ==
    LET hits == {i \in 1..Len(all) : all[i] \in stop}
    IN  SubSeq(all, 1, CHOOSE i \in hits : \A j \in hits : i <= j)

\* SimplePageHandler::iterate_headers_from with a callback that returns true
\* for the headers in stop.  Result: the headers the callback was invoked
\* for, in order, and how the call ended: "ok", "err" (a lookup field of
\* header is None) or "hang" (cyclic header chain, callback never stops).
iterate_headers_from(f, header, stop) ==
    IF \/ header.header_page_id = None
       \/ header.previous_page_id = None
       \/ header.header_offset = None
    THEN [status |-> "err", visited |-> <<>>]
    ELSE IF Range(AllHeaders(f, header)) \cap stop # {}
    THEN [status |-> "ok", visited |-> UpToFirst(AllHeaders(f, header), stop)]
    ELSE IF ChainEnds(f, header.header_page_id, ChainFuel)
    THEN [status |-> "ok", visited |-> AllHeaders(f, header)]
    ELSE [status |-> "hang", visited |-> AllHeaders(f, header)]

\* The header the callback of find_fitting_page and is_page captured: the
\* last one it saw, if it asked to stop there
Found(r, stop) ==
    IF r.status = "ok" /\ r.visited # <<>> /\ Last(r.visited) \in stop
    THEN Last(r.visited) ELSE NoHeader

\* PAGE_SIZE - used underflows
Over(h) == ULess(PAGE_SIZE, h.used)

\* The headers the callback of find_fitting_page returns true for.
\* PAGE_SIZE - used underflows for used > PAGE_SIZE; without overflow
\* checks the difference wraps to a value above every size.
Fitting(hs, size) == {h \in hs : Over(h) \/ PAGE_SIZE - h.used >= size}

\* The callback of find_fitting_page comparing with > instead of >=
FittingStrict(hs, size) == {h \in hs : Over(h) \/ PAGE_SIZE - h.used > size}

\* The result of find_fitting_page from the result r of its iteration and
\* the header h the callback captured; with overflow checks the callback
\* panics on a header with used > PAGE_SIZE
FittingResult(r, h, checked) ==
    IF h # NoHeader /\ Over(h) /\ checked
    THEN [status |-> "panic", header |-> NoHeader]
    ELSE [status |-> r.status, header |-> h]

\* find_fitting_page with the callback comparing with > instead of >=
find_fitting_page_strict(f, size, checked) ==
    LET stop == FittingStrict(Range(AllHeaders(f, GetFirst)), size)
        r == iterate_headers_from(f, GetFirst, stop)
    IN  FittingResult(r, Found(r, stop), checked)

\* SimplePageHandler::find_fitting_page
find_fitting_page(f, size, checked) ==
    LET stop == Fitting(Range(AllHeaders(f, GetFirst)), size)
        r == iterate_headers_from(f, GetFirst, stop)
    IN  FittingResult(r, Found(r, stop), checked)

\* SimplePageHandler::is_page
is_page(f, id) ==
    LET stop == {h \in Range(AllHeaders(f, GetFirst)) : h.id = id}
        r == iterate_headers_from(f, GetFirst, stop)
    IN  [status |-> r.status, header |-> Found(r, stop)]

\* The callback of iterate_pages receives (header, read_page(header))
Visit(f, h) == [header |-> h, page |-> ReadPage(f, h.id)]

\* SimplePageHandler::iterate_pages with a callback that asks to stop at
\* the stop_at-th page it is invoked for (0: never asks to stop)
iterate_pages(f, stop_at) ==
    LET all == AllHeaders(f, GetFirst)
        stop == IF stop_at \in 1..Len(all) THEN {all[stop_at]} ELSE {}
        r == iterate_headers_from(f, GetFirst, stop)
    IN  [status |-> r.status,
         visited |-> [i \in 1..Len(r.visited) |-> Visit(f, r.visited[i])]]

\* ------------------------------------------------------------ alloc_page
\* A page with the words ws written over it from byte offset off
Overlay(page, off, ws) ==
    [w \in 1..Len(page) |->
        IF w > off \div WordSize /\ w <= off \div WordSize + Len(ws)
        THEN ws[w - off \div WordSize] ELSE page[w]]

\* The loop of SimplePageHandler::alloc_page, entered with the header page
\* under inspection and the id popped for the new page.  Result: the file,
\* the status ("ok", "panic": slice out of range, "hang": cyclic chain of
\* full header pages) and the returned header.
RECURSIVE AllocLoop(_, _, _, _)
AllocLoop(f, current_header_page_id, new_page_id, fuel) ==
    LET bytes == ReadPage(f, current_header_page_id)
        own_header == HeaderFromWords(SubSeq(bytes, 1, HeaderWords))
    IN  IF ULess(PAGE_SIZE, own_header.used)
        THEN \* PAGE_SIZE - used underflows (panic when checked); wrapped,
             \* the slice used..used + 24 is out of range
             [file |-> f, status |-> "panic", header |-> NoHeader]
        ELSE IF PAGE_SIZE - own_header.used > HeaderSize
        THEN LET new_header == PageHeader(new_page_id, None, 0, own_header.id,
                                          own_header.used, None)
                 with_entry == Overlay(bytes, own_header.used,
                                       HeaderToWords(new_header))
                 grown == [own_header EXCEPT !.used = @ + HeaderSize]
                 with_own == Overlay(with_entry, 0, HeaderToWords(grown))
             IN  [file |-> WriteWords(f, current_header_page_id, with_own),
                  status |-> "ok", header |-> new_header]
        ELSE IF own_header.next # None
        THEN IF fuel = 0
             THEN [file |-> f, status |-> "hang", header |-> NoHeader]
             ELSE AllocLoop(f, own_header.next, new_page_id, fuel - 1)
        ELSE LET linked == [own_header EXCEPT !.next = new_page_id]
                 f1 == WriteWords(f, current_header_page_id,
                                  Overlay(bytes, 0, HeaderToWords(linked)))
                 new_own_header == PageHeader(new_page_id, None, HeaderSize,
                                              None, None, own_header.id)
                 f2 == WriteWords(f1, new_page_id, HeaderToWords(new_own_header))
                 p == pop_free(f2)
             IN  IF fuel = 0
                 THEN [file |-> f2, status |-> "hang", header |-> NoHeader]
                 ELSE AllocLoop(p.file, new_page_id, p.id, fuel - 1)

\* SimplePageHandler::alloc_page
alloc_page(f) ==
    LET p == pop_free(f)
    IN  AllocLoop(p.file, 0, p.id, ChainFuel)

\* The locals of a thread that is not inside alloc_page and has not
\* returned from it yet
NoCall ==
    [pc |-> "idle", first_page |-> 0, second_page |-> 0, new_page_id |-> 0,
     current_header_page_id |-> 0, bytes |-> <<>>, returned |-> None]

\* ------------------------------------------- values, predicates, cursors
\* Value::Text(String), the string as its UTF-8 bytes, and Value::Number(u64)
Text(bytes) == [type |-> "Text", val |-> bytes]
Number(n) == [type |-> "Number", val |-> n]

\* Option<Predicate>: None
NoPredicate == [column |-> "", operator |-> "", value |-> Number(0)]
Predicate(column, operator, value) ==
    [column |-> column, operator |-> operator, value |-> value]

\* Cursor, without a column list, and no cursor
Cursor(header, ptr_index, data_offset, predicate) ==
    [header |-> header, ptr_index |-> ptr_index, data_offset |-> data_offset,
     predicate |-> predicate]
NoCursor == Cursor(NoHeader, 0, 0, NoPredicate)

\* ---------------------------------------------------------- dealloc_page
\* own_header.used -= 24 on a usize: below 24 it panics with overflow
\* checks and wraps without them
SubHeaderSize(used) ==
    IF used = Huge THEN Huge
    ELSE IF used >= HeaderSize THEN used - HeaderSize ELSE Huge

\* header_page_bytes.drain(header_offset..header_offset + 24)
Drain(bytes, header_offset) ==
    SubSeq(bytes, 1, header_offset \div WordSize)
    \o SubSeq(bytes, header_offset \div WordSize + HeaderWords + 1, PageWords)

\* dealloc_page from the decrement of used on: own_header is the header
\* page's own header decoded after the drain.  An emptied header page other
\* than page 0 is spliced out of the chain, else the drained page is written
\* back with the decremented used; then page_header.id is pushed.
DeallocEntry(f, page_header, drained, own_header, checked) ==
    IF checked /\ own_header.used # Huge /\ own_header.used < HeaderSize
    THEN [file |-> f, status |-> "panic"]
    ELSE IF /\ SubHeaderSize(own_header.used) # Huge
            /\ SubHeaderSize(own_header.used) <= HeaderSize
            /\ page_header.header_page_id # 0
    THEN IF page_header.previous_page_id = None
         THEN [file |-> f, status |-> "err"]
         ELSE [file |-> push_free(
                   WriteWords(f, page_header.previous_page_id,
                       HeaderToWords(
                           [OwnHeader(f, page_header.previous_page_id)
                               EXCEPT !.next = own_header.next])),
                   page_header.id),
               status |-> "ok"]
    ELSE [file |-> push_free(
              WriteWords(f, page_header.header_page_id,
                  Overlay(drained, 0,
                      HeaderToWords([own_header EXCEPT
                                        !.used = SubHeaderSize(@)]))),
              page_header.id),
          status |-> "ok"]

\* dealloc_page after the recursive call: the entry at the header's recorded
\* position is drained from the header page
DeallocOwn(f, page_header, checked) ==
    IF page_header.header_page_id = None \/ page_header.header_offset = None
    THEN [file |-> f, status |-> "err"]
    ELSE IF page_header.header_offset + HeaderSize > PAGE_SIZE
    THEN [file |-> f, status |-> "panic"]
    ELSE DeallocEntry(f, page_header,
             Drain(ReadPage(f, page_header.header_page_id),
                   page_header.header_offset),
             HeaderFromWords(SubSeq(
                 Drain(ReadPage(f, page_header.header_page_id),
                       page_header.header_offset), 1, HeaderWords)),
             checked)

\* dealloc_page once the recursive call for page_header.next returned rec:
\* its error is dropped, a panic or a non-terminating recursion is not
DeallocAfter(rec, page_header, checked) ==
    IF rec.status \in {"hang", "panic"} THEN rec
    ELSE DeallocOwn(rec.file, page_header, checked)

\* SimplePageHandler::dealloc_page.  next_header is is_page(next) when
\* page_header.next is set; fuel bounds the depth of the recursion.
RECURSIVE DeallocNext(_, _, _, _, _)
DeallocNext(f, page_header, next_header, checked, fuel) ==
    IF page_header.next = None THEN DeallocOwn(f, page_header, checked)
    ELSE IF next_header.status = "hang" \/ fuel = 0
    THEN [file |-> f, status |-> "hang"]
    ELSE IF next_header.header = NoHeader
    THEN [file |-> f, status |-> "err"]
    ELSE DeallocAfter(
             DeallocNext(f, next_header.header,
                 IF next_header.header.next = None THEN next_header
                 ELSE is_page(f, next_header.header.next),
                 checked, fuel - 1),
             page_header, checked)

\* SimplePageHandler::dealloc_page
dealloc_page(f, page_header, checked, fuel) ==
    DeallocNext(f, page_header,
        IF page_header.next = None
        THEN [status |-> "ok", header |-> NoHeader]
        ELSE is_page(f, page_header.next),
        checked, fuel)

\* ------------------------------------------------------------ write_page
\* write_page without the comparison of the stored id with the header's id
write_page_unchecked(f, page_header, data, size) ==
    LET header_page_bytes == ReadPage(f, page_header.header_page_id)
        own_header == HeaderFromWords(EntryWords(header_page_bytes,
                                                 page_header.header_offset))
        f1 == WriteWords(f, page_header.id, data)
    IN  IF Len(data) * WordSize > PAGE_SIZE
        THEN [file |-> f, status |-> "err"]
        ELSE [file |-> WriteWords(f1, page_header.header_page_id,
                          Overlay(header_page_bytes, page_header.header_offset,
                                  HeaderToWords([own_header EXCEPT !.used = size]))),
              status |-> "ok"]

\* SimplePageHandler::write_page; data is the sequence of words to write
write_page(f, page_header, data, size) ==
    LET header_page_id == page_header.header_page_id
        header_offset == page_header.header_offset
        header_page_bytes == ReadPage(f, header_page_id)
        own_header == HeaderFromWords(EntryWords(header_page_bytes, header_offset))
        resized == [own_header EXCEPT !.used = size]
        f1 == WriteWords(f, page_header.id, data)
        f2 == WriteWords(f1, header_page_id,
                         Overlay(header_page_bytes, header_offset,
                                 HeaderToWords(resized)))
    IN  IF Len(data) * WordSize > PAGE_SIZE
        THEN [file |-> f, status |-> "err"]
        ELSE IF header_page_id = None \/ header_offset = None
        THEN [file |-> f, status |-> "err"]
        ELSE IF header_offset + HeaderSize > PAGE_SIZE
        THEN [file |-> f, status |-> "err"]
        ELSE IF own_header.id = page_header.id
        THEN [file |-> f2, status |-> "ok"]
        ELSE [file |-> f, status |-> "err"]

\* SimplePageHandler::read_page
read_page(f, page_header) == ReadPage(f, page_header.id)

\* ---------------------------------------------------------------- inputs
\* The word write_page callers fill data with
DataWord == 7
\* data arguments of write_page: one word, and one word more than a page
Datas == {<<DataWord>>, [w \in 1..(PageWords + 1) |-> DataWord]}
\* size arguments of write_page
Sizes == {PAGE_SIZE - WordSize}
\* size arguments of find_fitting_page
FitSizes == {WordSize, WordSize + 1, PAGE_SIZE + 1}

\* ----------------------------------------------------------------- views
TheFile == File(head, pages)

\* The ids the next k calls of pop_free return
RECURSIVE FuturePops(_, _)
FuturePops(f, k) ==
    IF k = 0 THEN <<>>
    ELSE LET p == pop_free(f) IN <<p.id>> \o FuturePops(p.file, k - 1)

\* The header pages of the chain from page id on, in chain order
RECURSIVE ChainPages(_, _, _)
ChainPages(f, id, fuel) ==
    LET next == ReadPage(f, id)[2]
    IN  IF next = 0 \/ fuel = 0 THEN <<id>>
        ELSE <<id>> \o ChainPages(f, next, fuel - 1)

\* The entries (id, used) registered in header page id: the slots after the
\* page's own header and below its used mark
EntriesOf(f, id) ==
    LET page == ReadPage(f, id)
        count == Cardinality({k \in 1..(SlotsPerPage - 1) :
                                ULess(k * HeaderSize, page[3])})
    IN  [k \in 1..count |->
            [id |-> page[k * HeaderWords + 1],
             used |-> page[k * HeaderWords + 3]]]

RECURSIVE Flatten(_)
Flatten(ss) == IF ss = <<>> THEN <<>> ELSE Head(ss) \o Flatten(Tail(ss))

\* The registered data pages (id, used) in header-chain order
Registered(f) ==
    LET hps == ChainPages(f, 0, ChainFuel)
    IN  Flatten([i \in 1..Len(hps) |-> EntriesOf(f, hps[i])])

RegisteredIds(f) == {e.id : e \in Range(Registered(f))}
HeaderPageIds(f) == Range(ChainPages(f, 0, ChainFuel))

\* The free list: the ids from the head cell along the next pointers up to,
\* not including, the page whose next pointer is 0 (the tail sentinel: the
\* first id never handed out)
RECURSIVE FreeFrom(_, _, _)
FreeFrom(f, id, fuel) ==
    IF ReadPage(f, id)[1] = 0 \/ fuel = 0 THEN <<>>
    ELSE <<id>> \o FreeFrom(f, ReadPage(f, id)[1], fuel - 1)

FreeList(f) == FreeFrom(f, f.head, ChainFuel)
FreeIds(f) == Range(FreeList(f))

\* The tail sentinel of the free list: the allocation high-water mark
RECURSIVE FreeTail(_, _, _)
FreeTail(f, id, fuel) ==
    IF ReadPage(f, id)[1] = 0 \/ fuel = 0 THEN id
    ELSE FreeTail(f, ReadPage(f, id)[1], fuel - 1)

HighWater(f) == FreeTail(f, f.head, ChainFuel)

\* What dealloc(alloc()) is to restore: the ids future allocations take from
\* the free list, and the header chain with its registered entries
StoreView(f) ==
    LET hps == ChainPages(f, 0, ChainFuel)
    IN  [free |-> FuturePops(f, FreeDepth),
         chain |-> [i \in 1..Len(hps) |->
                      [page |-> hps[i], entries |-> EntriesOf(f, hps[i])]]]

NoView == [free |-> <<>>, chain |-> <<>>]
NoPre == [view |-> NoView, freed |-> <<>>]

\* ----------------------------------------------------------------- state
Ret(op, status, header, arg, data, size, visited) ==
    [op |-> op, status |-> status, header |-> header, arg |-> arg,
     data |-> data, size |-> size, visited |-> visited]

\* SimplePageHandler::new on a missing file: head cell 1, page 0 holding its
\* own header (id 0, no next, used 24)
\* ---------------------------------------------------- state of an Executor
\* The file SimplePageHandler::new leaves at a path that had no file, and
\* no file at a path
NewFile ==
    File(1, [id \in PageIds |->
               IF id = 0
               THEN Overlay(ZeroPage, 0,
                      HeaderToWords(PageHeader(0, None, HeaderSize,
                                               None, None, None)))
               ELSE ZeroPage])
NoFile == File(None, <<>>)

\* Table names "t" and "u"
TableNames == {<<116>>, <<117>>}

\* The values of a cursor hash, and no entry under a hash
Handles == 1..MaxHandles
NoEntry == [table_name |-> <<>>, cursor |-> NoCursor]

\* A thread between two commands
IdleCall == [pc |-> "idle"]

\* The tokens of the connections the server accepts
Tokens == FirstToken..(FirstToken + MaxConns - 1)

\* The admin key "k", the database names "d" and "e", the keys "x" and "y"
\* that new_database draws from, and the registry of a server that starts
\* with the database "d" and its key "x"
AdminKey == <<107>>
DatabaseNames == {<<100>>, <<101>>}
Keys == {<<120>>, <<121>>}
NoKey == <<>>
FirstDatabases == [name \in DatabaseNames |->
                      IF name = <<100>> THEN <<120>> ELSE NoKey]

\* First messages: the admin key, "d.x", "d.y", "e.x", "d" and a byte that
\* is not UTF-8
Credentials ==
    {AdminKey, <<100, 46, 120>>, <<100, 46, 121>>, <<101, 46, 120>>,
     <<100>>, <<255>>}

\* Requests: each flag byte with the argument "d", and new_database "e"
Flags == QUERY_FLAG..DELETE_DATABASE_FLAG
Requests == {<<flag, 100>> : flag \in Flags} \cup {<<NEW_DATABASE_FLAG, 101>>}
Messages == Credentials \cup Requests

\* A token without entry in Server.connections, a stream of a token, and a
\* worker that waits for work, with the token it has skipped last
NoConnection == [database |-> <<>>, connection_type |-> "none"]
Stream(state, data) == [state |-> state, data |-> data]
Waiting == [pc |-> "wait", token |-> None]

\* DatabaseSchemaHandler::new fills the map from the rows of the table:
\* the table starts with one row for every database of the map
FirstRows == <<<<<<100>>, FirstDatabases[<<100>>]>>>>

Init ==
    /\ head = 1
    /\ pages = NewFile.pages
    /\ held = {}
    /\ ret = Ret("new", "ok", NoHeader, NoHeader, <<>>, 0, <<>>)
    /\ live = {}
    /\ allocated = <<>>
    /\ onlyAlloc = TRUE
    /\ pre = NoPre
    /\ allocs = 0
    /\ freed = <<>>
    /\ accesses = {}
    /\ fileBytes = [b \in 0..(MaxAt + MaxLen - 1) |-> 0]
    /\ wpc = [t \in Threads |-> "idle"]
    /\ wcall = [t \in Threads |-> <<0, 0>>]
    /\ wdone = [t \in Threads |-> 0]
    /\ rpc = "idle"
    /\ rcall = <<0, 0>>
    /\ buffer = <<>>
    /\ callers = [t \in 1..AllocThreads |-> NoCall]
    /\ tret = [op |-> "none", status |-> "ok", row |-> <<>>,
               predicate |-> NoPredicate, before |-> <<>>]
    /\ cursor = NoCursor
    /\ yielded = <<>>
    /\ inserts = 0
    /\ conv = [op |-> "none"]
    /\ schema = NewFile
    /\ tables = <<>>
    /\ cursors = [hash \in Handles |-> NoEntry]
    /\ dir = [name \in TableNames |-> NoFile]
    /\ ecall = [t \in 1..ExecThreads |-> IdleCall]
    /\ eret = [op |-> "none"]
    /\ ecount = 0
    /\ dropped = [name \in TableNames |-> <<>>]
    /\ pending = [token \in Tokens |-> "none"]
    /\ connections = [token \in Tokens |-> NoConnection]
    /\ work = <<>>
    /\ token_value = FirstToken
    /\ inbox = [token \in Tokens |-> Stream("none", <<>>)]
    /\ ready = {}
    /\ events = {}
    /\ reactor = "run"
    /\ workers = [w \in 1..num_thread |-> Waiting]
    /\ sent = [token \in Tokens |-> <<>>]
    /\ deregistered = {}
    /\ ran = [fn |-> "none"]
    /\ sends = 0
    /\ databases = FirstDatabases
    /\ executors = {name \in DatabaseNames : FirstDatabases[name] # NoKey}
    /\ database_rows = FirstRows
    /\ dcall = [t \in 1..RegistryThreads |-> [pc |-> "idle"]]
    /\ dcount = 0
    /\ lcall = [t \in 1..LockThreads |-> [op |-> "idle", pc |-> 0]]
    /\ lheld = [t \in 1..LockThreads |-> <<>>]
    /\ lcount = 0
    /\ reported = [name \in TableNames |-> <<>>]

\* The file stays within the modelled capacity
InBounds(f) == ~f.oob /\ HighWater(f) <= MaxPage + 1 /\ f.head <= MaxPage + 1

\* The header the last call returned, if any
Returned == {ret.header} \ {NoHeader}

\* alloc_page() and its effect on the file and the bookkeeping variables
Alloc ==
    LET r == alloc_page(TheFile)
    IN  /\ allocs < MaxAllocs
        /\ r.status # "hang"
        /\ InBounds(r.file)
        /\ r.status = "ok" => r.header.id <= MaxPage
        /\ allocs' = allocs + 1
        /\ head' = r.file.head
        /\ pages' = r.file.pages
        /\ ret' = Ret("alloc_page", r.status, r.header, NoHeader, <<>>, 0, <<>>)
        /\ live' = IF r.status = "ok" THEN live \cup {r.header.id} ELSE live
        /\ allocated' = IF onlyAlloc /\ r.status = "ok"
                        THEN Append(allocated, r.header.id) ELSE allocated
        /\ onlyAlloc' = onlyAlloc
        /\ pre' = [view |-> StoreView(TheFile), freed |-> freed]
        /\ UNCHANGED nonStoreVars
        /\ freed' = LET taken == (HeaderPageIds(r.file) \ HeaderPageIds(TheFile))
                                 \cup {r.header.id}
                    IN  SelectSeq(freed, LAMBDA id : id \notin taken)

\* A caller invoking alloc_page
AllocPage == Alloc /\ held' = held

\* A caller invoking alloc_page and keeping the returned header
AllocPageKeep ==
    /\ Cardinality(held) < MaxHeld
    /\ Alloc
    /\ held' = held \cup Returned'

\* Effects of a call that is not alloc_page on the bookkeeping variables
Bookkeep(mutates) ==
    /\ allocated' = IF mutates THEN <<>> ELSE allocated
    /\ onlyAlloc' = (onlyAlloc /\ ~mutates)
    /\ pre' = NoPre
    /\ allocs' = allocs
    /\ UNCHANGED nonStoreVars

\* dealloc_page(page_header) and its effect on the file and on live
Dealloc(page_header, checked) ==
    LET r == dealloc_page(TheFile, page_header, checked, ChainFuel)
    IN  /\ r.status # "hang"
        /\ InBounds(r.file)
        /\ head' = r.file.head
        /\ pages' = r.file.pages
        /\ ret' = Ret("dealloc_page", r.status, NoHeader, page_header, <<>>, 0, <<>>)
        /\ live' = IF r.status = "ok" THEN live \ {page_header.id} ELSE live
        /\ freed' = IF r.status = "ok" /\ page_header.id \notin Range(freed)
                    THEN Append(freed, page_header.id) ELSE freed
        /\ Bookkeep(TRUE)

\* A caller deallocating the page whose header the last call (alloc_page,
\* is_page, find_fitting_page) returned
DeallocPage ==
    \E page_header \in Returned, checked \in BOOLEAN :
        /\ Dealloc(page_header, checked)
        /\ held' = held

\* A caller deallocating a page with a header kept from an earlier
\* alloc_page; dealloc_page consumes the header
DeallocHeld ==
    \E page_header \in held, checked \in BOOLEAN :
        /\ Dealloc(page_header, checked)
        /\ held' = held \ {page_header}

\* A caller passing a clone of a kept header to dealloc_page
DeallocClone ==
    \E page_header \in held, checked \in BOOLEAN :
        /\ Dealloc(page_header, checked)
        /\ held' = held

\* A caller invoking is_page(id)
IsPage ==
    \E id \in PageIds :
        LET r == is_page(TheFile, id)
        IN  /\ r.status # "hang"
            /\ ret' = Ret("is_page", r.status, r.header, NoHeader, <<>>, id, <<>>)
            /\ Bookkeep(FALSE)
            /\ UNCHANGED <<head, pages, held, live, freed>>

\* A caller invoking find_fitting_page(size)
FindFittingPage ==
    \E size \in FitSizes, checked \in BOOLEAN :
        LET r == find_fitting_page(TheFile, size, checked)
        IN  /\ r.status # "hang"
            /\ ret' = Ret("find_fitting_page", r.status, r.header, NoHeader,
                          <<>>, size, <<>>)
            /\ Bookkeep(FALSE)
            /\ UNCHANGED <<head, pages, held, live, freed>>

\* write_page(page_header, data, size) and its effect on the file
Write(page_header, data, size) ==
    LET r == write_page(TheFile, page_header, data, size)
    IN  /\ InBounds(r.file)
        /\ head' = r.file.head
        /\ pages' = r.file.pages
        /\ ret' = Ret("write_page", r.status, NoHeader, page_header,
                      data, size, <<>>)
        /\ Bookkeep(TRUE)
        /\ UNCHANGED <<held, live, freed>>

\* A caller writing the page whose header the last call returned
WritePage ==
    \E page_header \in Returned, data \in Datas, size \in Sizes :
        Write(page_header, data, size)

\* A caller writing a page with a header kept from an earlier alloc_page
WriteHeld ==
    \E page_header \in held, data \in Datas, size \in Sizes :
        Write(page_header, data, size)

\* A caller invoking iterate_pages with a callback that stops at its
\* stop_at-th invocation (0: never)
IteratePages ==
    \E stop_at \in 0..1 :
        LET r == iterate_pages(TheFile, stop_at)
        IN  /\ r.status # "hang"
            /\ ret' = Ret("iterate_pages", r.status, NoHeader, NoHeader,
                          <<>>, stop_at, r.visited)
            /\ Bookkeep(FALSE)
            /\ UNCHANGED <<head, pages, held, live, freed>>

\* Page store used by a caller that never passes a header another
\* dealloc_page may have invalidated
Next ==
    \/ AllocPage
    \/ DeallocPage
    \/ IsPage
    \/ FindFittingPage
    \/ WritePage
    \/ IteratePages

Spec == Init /\ [][Next]_vars

\* Page store used as an allocator: pages are allocated, looked up and
\* deallocated, never written
NextAlloc ==
    \/ AllocPage
    \/ DeallocPage
    \/ IsPage

SpecAlloc == Init /\ [][NextAlloc]_vars

\* Page store used for its data: pages are allocated, written, searched by
\* free space, traversed, and deallocated with the header a search returned
NextData ==
    \/ AllocPage
    \/ DeallocPage
    \/ WritePage
    \/ FindFittingPage
    \/ IteratePages

SpecData == Init /\ [][NextData]_vars

\* Page store used by a caller that keeps headers across dealloc_page calls
NextHeld ==
    \/ AllocPageKeep
    \/ DeallocHeld
    \/ WriteHeld

SpecHeld == Init /\ [][NextHeld]_vars

\* Page store used by a caller that clones the headers it keeps, so that
\* one header can be passed to dealloc_page more than once
NextClone ==
    \/ AllocPageKeep
    \/ DeallocClone
    \/ DeallocHeld

SpecClone == Init /\ [][NextClone]_vars

\* ---------------------------------------------------- SimpleFileHandler
\* The closure of write_at and read_at: the in-flight range (start, length)
\* overlaps the range (at, len)
OverlapsLowerOnly(start, length, at, len) == at < start + length /\ start < at

Overlaps(start, length, at, len) == start < at + len /\ at < start + length

\* A thread calls write_at(at, data) with data_len = len fileBytes; thread t
\* writes the byte value t
WriteCall(t) ==
    \E at \in 0..MaxAt, len \in 1..MaxLen :
        /\ wpc[t] = "idle"
        /\ wpc' = [wpc EXCEPT ![t] = "lock"]
        /\ wcall' = [wcall EXCEPT ![t] = <<at, len>>]
        /\ UNCHANGED <<accesses, fileBytes, wdone, readVars>>

\* First critical section of write_at, entered from the call or after
\* cond.wait returned: no in-flight range overlaps, the range is inserted
WriteEnter(t) ==
    /\ wpc[t] = "lock"
    /\ ~\E a \in accesses : Overlaps(a[1], a[2], wcall[t][1], wcall[t][2])
    /\ accesses' = accesses \cup {wcall[t]}
    /\ wpc' = [wpc EXCEPT ![t] = "pwrite"]
    /\ UNCHANGED <<fileBytes, wcall, wdone, readVars>>

\* First critical section of write_at: an in-flight range overlaps, the
\* thread releases the mutex in cond.wait
WriteWait(t) ==
    /\ wpc[t] = "lock"
    /\ \E a \in accesses : Overlaps(a[1], a[2], wcall[t][1], wcall[t][2])
    /\ wpc' = [wpc EXCEPT ![t] = "wait"]
    /\ UNCHANGED <<accesses, fileBytes, wcall, wdone, readVars>>

\* cond.wait returns without a notification (spurious wakeup)
WriteWake(t) ==
    /\ wpc[t] = "wait"
    /\ wpc' = [wpc EXCEPT ![t] = "lock"]
    /\ UNCHANGED <<accesses, fileBytes, wcall, wdone, readVars>>

\* pwrite stores the next byte of data; the kernel gives no atomicity
\* between the bytes of two concurrent pwrite calls
WriteByte(t) ==
    /\ wpc[t] = "pwrite"
    /\ wdone[t] < wcall[t][2]
    /\ fileBytes' = [fileBytes EXCEPT ![wcall[t][1] + wdone[t]] = t]
    /\ wdone' = [wdone EXCEPT ![t] = @ + 1]
    /\ UNCHANGED <<accesses, wpc, wcall, readVars>>

\* Second critical section of write_at: the range is removed and
\* notify_all wakes every thread in cond.wait
WriteLeave(t) ==
    /\ wpc[t] = "pwrite"
    /\ wdone[t] = wcall[t][2]
    /\ accesses' = accesses \ {wcall[t]}
    /\ wpc' = [u \in Threads |->
                 IF u = t THEN "done" ELSE IF wpc[u] = "wait" THEN "lock"
                 ELSE wpc[u]]
    /\ rpc' = IF rpc = "wait" THEN "lock" ELSE rpc
    /\ UNCHANGED <<fileBytes, wcall, wdone, rcall, buffer>>

\* Threads writing through one shared SimpleFileHandler
NextFile ==
    \/ \E t \in Threads : WriteCall(t) /\ UNCHANGED nonFileVars
    \/ \E t \in Threads : WriteEnter(t) /\ UNCHANGED nonFileVars
    \/ \E t \in Threads : WriteWait(t) /\ UNCHANGED nonFileVars
    \/ \E t \in Threads : WriteWake(t) /\ UNCHANGED nonFileVars
    \/ \E t \in Threads : WriteByte(t) /\ UNCHANGED nonFileVars
    \/ \E t \in Threads : WriteLeave(t) /\ UNCHANGED nonFileVars

SpecFile == Init /\ [][NextFile]_vars

\* A thread calls read_at(at, length)
ReadCall ==
    \E at \in 0..MaxAt, length \in 1..MaxLen :
        /\ rpc = "idle"
        /\ rpc' = "lock"
        /\ rcall' = <<at, length>>
        /\ UNCHANGED <<buffer, fileVars>>

\* Critical section of read_at, entered from the call or after cond.wait
\* returned: no in-flight write range overlaps; the mutex is released and
\* the range of the read is recorded nowhere
ReadEnter ==
    /\ rpc = "lock"
    /\ ~\E a \in accesses : Overlaps(a[1], a[2], rcall[1], rcall[2])
    /\ rpc' = "pread"
    /\ UNCHANGED <<rcall, buffer, fileVars>>

\* Critical section of read_at: an in-flight write range overlaps, the
\* thread releases the mutex in cond.wait
ReadWait ==
    /\ rpc = "lock"
    /\ \E a \in accesses : Overlaps(a[1], a[2], rcall[1], rcall[2])
    /\ rpc' = "wait"
    /\ UNCHANGED <<rcall, buffer, fileVars>>

\* cond.wait returns without a notification (spurious wakeup)
ReadWake ==
    /\ rpc = "wait"
    /\ rpc' = "lock"
    /\ UNCHANGED <<rcall, buffer, fileVars>>

\* pread copies the next byte of the file; the kernel gives no atomicity
\* between the bytes of a pread and those of a concurrent pwrite
ReadByte ==
    /\ rpc = "pread"
    /\ Len(buffer) < rcall[2]
    /\ buffer' = Append(buffer, fileBytes[rcall[1] + Len(buffer)])
    /\ UNCHANGED <<rpc, rcall, fileVars>>

\* read_at returns the buffer
ReadReturn ==
    /\ rpc = "pread"
    /\ Len(buffer) = rcall[2]
    /\ rpc' = "done"
    /\ UNCHANGED <<rcall, buffer, fileVars>>

\* One thread reading while the others write through the same
\* SimpleFileHandler
NextRead ==
    \/ \E t \in Threads : WriteCall(t) /\ UNCHANGED nonFileVars
    \/ \E t \in Threads : WriteEnter(t) /\ UNCHANGED nonFileVars
    \/ \E t \in Threads : WriteWait(t) /\ UNCHANGED nonFileVars
    \/ \E t \in Threads : WriteWake(t) /\ UNCHANGED nonFileVars
    \/ \E t \in Threads : WriteByte(t) /\ UNCHANGED nonFileVars
    \/ \E t \in Threads : WriteLeave(t) /\ UNCHANGED nonFileVars
    \/ ReadCall /\ UNCHANGED nonFileVars
    \/ ReadEnter /\ UNCHANGED nonFileVars
    \/ ReadWait /\ UNCHANGED nonFileVars
    \/ ReadWake /\ UNCHANGED nonFileVars
    \/ ReadByte /\ UNCHANGED nonFileVars
    \/ ReadReturn /\ UNCHANGED nonFileVars

SpecRead == Init /\ [][NextRead]_vars

\* --------------------------------------------- alloc_page, two threads
\* SimplePageHandler holds no lock: the read_at and write_at calls of two
\* threads inside alloc_page interleave.  Each action is one file access of
\* one thread, with the thread's locals in callers[t].

\* A thread enters alloc_page
RaceCall(t) ==
    /\ callers[t].pc = "idle"
    /\ allocs < MaxAllocs
    /\ allocs' = allocs + 1
    /\ callers' = [callers EXCEPT ![t] =
                     [NoCall EXCEPT !.pc = "pop_first",
                                    !.returned = callers[t].returned]]
    /\ UNCHANGED <<head, pages>>

\* pop_free: read_at(0, 8), the first free page id
RacePopFirst(t) ==
    /\ callers[t].pc = "pop_first"
    /\ callers' = [callers EXCEPT ![t].pc = "pop_second",
                                  ![t].first_page = head]
    /\ UNCHANGED <<head, pages, allocs>>

\* pop_free: read_at of the first 8 bytes of the first free page
RacePopSecond(t) ==
    /\ callers[t].pc = "pop_second"
    /\ callers' = [callers EXCEPT
                     ![t].pc = "pop_write",
                     ![t].second_page =
                         ReadPage(TheFile, callers[t].first_page)[1]]
    /\ UNCHANGED <<head, pages, allocs>>

\* pop_free: write_at(0, ..) of the new head; the popped id is new_page_id
RacePopWrite(t) ==
    /\ callers[t].pc = "pop_write"
    /\ head' = IF callers[t].second_page # 0 THEN callers[t].second_page
               ELSE callers[t].first_page + 1
    /\ head' <= MaxPage + 1
    /\ callers' = [callers EXCEPT ![t].pc = "load",
                                  ![t].new_page_id = callers[t].first_page]
    /\ UNCHANGED <<pages, allocs>>

\* Loop of alloc_page: read_at of the current header page
RaceLoad(t) ==
    /\ callers[t].pc = "load"
    /\ callers' = [callers EXCEPT
                     ![t].pc = "loaded",
                     ![t].bytes =
                         ReadPage(TheFile, callers[t].current_header_page_id)]
    /\ UNCHANGED <<head, pages, allocs>>

\* Loop of alloc_page: the loaded header page has room; the new entry and
\* the grown own header are put into the loaded bytes and written back
RaceRegister(t) ==
    LET c == callers[t]
        own_header == HeaderFromWords(SubSeq(c.bytes, 1, HeaderWords))
        new_header == PageHeader(c.new_page_id, None, 0, own_header.id,
                                 own_header.used, None)
    IN  /\ c.pc = "loaded"
        /\ PAGE_SIZE - own_header.used > HeaderSize
        /\ pages' = [pages EXCEPT ![c.current_header_page_id] =
                       Overlay(Overlay(c.bytes, own_header.used,
                                       HeaderToWords(new_header)),
                               0, HeaderToWords([own_header EXCEPT
                                                   !.used = @ + HeaderSize]))]
        /\ callers' = [callers EXCEPT ![t].pc = "idle",
                                      ![t].returned = c.new_page_id]
        /\ UNCHANGED <<head, allocs>>

\* Loop of alloc_page: the loaded header page is full and has a next
RaceFollow(t) ==
    LET c == callers[t]
        own_header == HeaderFromWords(SubSeq(c.bytes, 1, HeaderWords))
    IN  /\ c.pc = "loaded"
        /\ PAGE_SIZE - own_header.used <= HeaderSize
        /\ own_header.next # None
        /\ callers' = [callers EXCEPT
                         ![t].pc = "load",
                         ![t].current_header_page_id = own_header.next]
        /\ UNCHANGED <<head, pages, allocs>>

\* Loop of alloc_page: the loaded header page is full and the last one; it
\* is written back with next = new_page_id
RaceLink(t) ==
    LET c == callers[t]
        own_header == HeaderFromWords(SubSeq(c.bytes, 1, HeaderWords))
    IN  /\ c.pc = "loaded"
        /\ PAGE_SIZE - own_header.used <= HeaderSize
        /\ own_header.next = None
        /\ pages' = [pages EXCEPT ![c.current_header_page_id] =
                       Overlay(c.bytes, 0,
                               HeaderToWords([own_header EXCEPT
                                                !.next = c.new_page_id]))]
        /\ callers' = [callers EXCEPT ![t].pc = "link_new"]
        /\ UNCHANGED <<head, allocs>>

\* Loop of alloc_page: the own header of the new header page is written and
\* the loop goes on there, with another id from pop_free
RaceLinkNew(t) ==
    LET c == callers[t]
    IN  /\ c.pc = "link_new"
        /\ c.new_page_id \in PageIds
        /\ pages' = [pages EXCEPT ![c.new_page_id] =
                       Overlay(@, 0, HeaderToWords(
                           PageHeader(c.new_page_id, None, HeaderSize,
                                      None, None, None)))]
        /\ callers' = [callers EXCEPT
                         ![t].pc = "pop_first",
                         ![t].current_header_page_id = c.new_page_id]
        /\ UNCHANGED <<head, allocs>>

\* What the alloc_page threads leave alone
RaceFrame ==
    UNCHANGED <<held, ret, live, allocated, onlyAlloc, pre, freed, fileVars,
                readVars, tableVars, convVars, execVars, srvVars, regVars, lockVars, insertVars>>

\* Threads calling alloc_page on one shared SimplePageHandler
NextRace ==
    \/ \E t \in 1..AllocThreads : RaceCall(t) /\ RaceFrame
    \/ \E t \in 1..AllocThreads : RacePopFirst(t) /\ RaceFrame
    \/ \E t \in 1..AllocThreads : RacePopSecond(t) /\ RaceFrame
    \/ \E t \in 1..AllocThreads : RacePopWrite(t) /\ RaceFrame
    \/ \E t \in 1..AllocThreads : RaceLoad(t) /\ RaceFrame
    \/ \E t \in 1..AllocThreads : RaceRegister(t) /\ RaceFrame
    \/ \E t \in 1..AllocThreads : RaceFollow(t) /\ RaceFrame
    \/ \E t \in 1..AllocThreads : RaceLink(t) /\ RaceFrame
    \/ \E t \in 1..AllocThreads : RaceLinkNew(t) /\ RaceFrame

SpecRace == Init /\ [][NextRace]_vars

\* ------------------------------------------------------------ row values
\* OffsetType = u16: to_le_bytes(v as OffsetType), the cast truncating
OffsetBits == 16
OffsetSize == OffsetBits \div 8
OffsetMod == 2 ^ OffsetBits
OffsetToBytes(v) == <<(v % OffsetMod) % 256, (v % OffsetMod) \div 256>>

\* OffsetType::from_le_bytes
OffsetFromBytes(b) == b[1] + 256 * b[2]

\* u64::to_le_bytes, for the numbers below 2^24 the model uses
NumberToBytes(v) ==
    [k \in 1..8 |-> IF k <= 3 THEN (v \div 256 ^ (k - 1)) % 256 ELSE 0]

\* u64::from_le_bytes; Huge stands for the values from 2^24 on
NumberFromBytes(b) ==
    IF \E k \in 4..8 : b[k] # 0 THEN Huge
    ELSE b[1] + 256 * b[2] + 65536 * b[3]

\* impl Into<Vec<u8>> for Value
ValueToBytes(v) == IF v.type = "Text" THEN v.val ELSE NumberToBytes(v.val)

\* The outcome of a fallible conversion: "ok" with a value, "err" (an Err
\* is returned) or "panic" (a slice index out of range)
Ok(v) == [status |-> "ok", val |-> v]
Err == [status |-> "err", val |-> <<>>]
Panic == [status |-> "panic", val |-> <<>>]

\* Value::new_text_from_bytes: String::from_utf8, which rejects a byte from
\* 128 on that is not part of a multi-byte sequence (the model's strings
\* are ASCII)
new_text_from_bytes(bytes) ==
    IF \A i \in 1..Len(bytes) : bytes[i] < 128 THEN Ok(Text(bytes)) ELSE Err

\* Value::new_number_from_bytes: try_into::<[u8; 8]> fails on other lengths
new_number_from_bytes(bytes) ==
    IF Len(bytes) = 8 THEN Ok(Number(NumberFromBytes(bytes))) ELSE Err

\* Rust's bytes[a..b]
Slice(bytes, a, b) == SubSeq(bytes, a + 1, b)
\* bytes[a..b] is in range
InRange(bytes, a, b) == 0 <= a /\ a <= b /\ b <= Len(bytes)

\* impl Into<Vec<u8>> for Row: one cumulative end offset per column, then
\* the column bytes
RowToBytes(row) ==
    LET n == Len(row)
        col_bytes == [i \in 1..n |-> ValueToBytes(row[i])]
        offset_cumulative(i) == n * OffsetSize + Len(Flatten(SubSeq(col_bytes, 1, i)))
    IN  Flatten([i \in 1..n |-> OffsetToBytes(offset_cumulative(i))])
        \o Flatten(col_bytes)

\* The loop of impl TryFrom<(Vec<u8>, Vec<Type>)> for Row from column index
\* (0-based) on; val is the sequence of the remaining columns' values
RECURSIVE RowFromBytesLoop(_, _, _, _)
RowFromBytesLoop(bytes, col_types, index, last_col_offset) ==
    IF index = Len(col_types) THEN Ok(<<>>)
    ELSE IF ~InRange(bytes, index * OffsetSize, (index + 1) * OffsetSize)
    THEN Panic
    ELSE LET col_offset == OffsetFromBytes(Slice(bytes, index * OffsetSize,
                                                 (index + 1) * OffsetSize))
             col_bytes == Slice(bytes, last_col_offset, col_offset)
             val == IF col_types[index + 1] = "Number"
                    THEN new_number_from_bytes(col_bytes)
                    ELSE new_text_from_bytes(col_bytes)
             rest == RowFromBytesLoop(bytes, col_types, index + 1, col_offset)
         IN  IF ~InRange(bytes, last_col_offset, col_offset) THEN Panic
             ELSE IF val.status # "ok" THEN val
             ELSE IF rest.status # "ok" THEN rest
             ELSE Ok(<<val.val>> \o rest.val)

\* impl TryFrom<(Vec<u8>, Vec<Type>)> for Row
RowFromBytes(bytes, col_types) ==
    RowFromBytesLoop(bytes, col_types, 0, Len(col_types) * OffsetSize)

\* ------------------------------------------------------------ predicates
Operators ==
    {"equal", "not_equal", "less", "less_equal", "bigger", "bigger_equal"}

\* a < b on Strings: bytewise lexicographic
RECURSIVE TextLess(_, _)
TextLess(a, b) ==
    IF b = <<>> THEN FALSE
    ELSE IF a = <<>> THEN TRUE
    ELSE IF Head(a) # Head(b) THEN Head(a) < Head(b)
    ELSE TextLess(Tail(a), Tail(b))

\* a < b on two values of one type
ValueLess(a, b) ==
    IF a.type = "Text" THEN TextLess(a.val, b.val) ELSE ULess(a.val, b.val)

\* The match of row_fulfills on (operator, value, predicate value)
Compare(operator, a, b) ==
    CASE operator = "equal" -> a = b
      [] operator = "not_equal" -> a # b
      [] operator = "less" -> ValueLess(a, b)
      [] operator = "less_equal" -> ~ValueLess(b, a)
      [] operator = "bigger" -> ValueLess(b, a)
      [] operator = "bigger_equal" -> ~ValueLess(a, b)

\* col_data.iter().position(|(_, name)| name == column): 1-based, 0 for None
Position(col_data, column) ==
    IF \E i \in 1..Len(col_data) : col_data[i].name = column
    THEN CHOOSE i \in 1..Len(col_data) :
            /\ col_data[i].name = column
            /\ \A j \in 1..(i - 1) : col_data[j].name # column
    ELSE 0

\* SimpleTableHandler::row_fulfills
row_fulfills(col_data, row, p) ==
    LET index == Position(col_data, p.column)
    IN  IF p = NoPredicate THEN Ok(TRUE)
        ELSE IF index = 0 \/ index > Len(row) THEN Err
        ELSE IF row[index].type # p.value.type THEN Err
        ELSE Ok(Compare(p.operator, row[index], p.value))

\* -------------------------------------------------------- data page bytes
\* A data page the table store has written is kept as PageWords words of
\* eight bytes each; a page never written holds the integer word 0.
WordBytes(w) ==
    IF ToString(w) = "0" THEN [k \in 1..WordSize |-> 0] ELSE w

\* The PAGE_SIZE bytes read_page returns
PageBytes(words) == Flatten([w \in 1..Len(words) |-> WordBytes(words[w])])

\* The words of the PAGE_SIZE bytes handed to write_page
PageOfBytes(bytes) ==
    [w \in 1..(Len(bytes) \div WordSize) |->
        SubSeq(bytes, (w - 1) * WordSize + 1, w * WordSize)]

\* page[start..start + bs.len()].copy_from_slice(bs)
CopyFromSlice(page, start, bs) ==
    [i \in 1..Len(page) |->
        IF i > start /\ i <= start + Len(bs) THEN bs[i - start] ELSE page[i]]

\* OffsetType::from_le_bytes(page[at..at + 2]) as usize
OffsetAt(page, at) == OffsetFromBytes(Slice(page, at, at + OffsetSize))

\* The types of the columns of a table
ColTypes(col_data) == [i \in 1..Len(col_data) |-> col_data[i].type]

\* usize addition where a may be the wrapped value Huge
UAdd(a, b) == IF a = Huge THEN Huge ELSE a + b

\* ------------------------------------------------------------ insert_row
\* insert_row after read_page has returned page: the row is put in front
\* of the heap of the chosen page, its end offset into the next slot, and
\* the page is written with the new used value
InsertPage(f, page_header, page, row_bytes, used) ==
    LET row_size == Len(row_bytes)
        ptr_count == OffsetAt(page, 0)
        at_slot == (ptr_count + 1) * OffsetSize
        data_offset == OffsetAt(page, ptr_count * OffsetSize)
        counted == CopyFromSlice(page, 0, OffsetToBytes(ptr_count + 1))
        slotted == CopyFromSlice(counted, at_slot,
                                 OffsetToBytes(data_offset + row_size))
        start == Len(page) - (data_offset + row_size)
        w == write_page(f, page_header,
                        PageOfBytes(CopyFromSlice(slotted, start, row_bytes)),
                        used)
    IN  IF ~InRange(page, ptr_count * OffsetSize, at_slot) THEN
            [file |-> f, status |-> "panic"]
        ELSE IF ~InRange(page, at_slot, at_slot + OffsetSize) THEN
            [file |-> f, status |-> "panic"]
        ELSE IF Len(page) < data_offset + row_size THEN
            [file |-> f, status |-> "invalid_input"]
        ELSE [file |-> w.file, status |-> w.status]

\* insert_row from read_page on, for the page as it is in the file
InsertInto(f, page_header, row_bytes, used) ==
    InsertPage(f, page_header, PageBytes(read_page(f, page_header)),
               row_bytes, used)

\* SimpleTableHandler::insert_row
insert_row(f, row, checked) ==
    LET row_bytes == RowToBytes(row)
        size == Len(row_bytes) + OffsetSize
        fit == find_fitting_page(f, size, checked)
        a == alloc_page(f)
    IN  IF fit.status # "ok" THEN [file |-> f, status |-> fit.status]
        ELSE IF fit.header # NoHeader
        THEN InsertInto(f, fit.header, row_bytes, UAdd(fit.header.used, size))
        ELSE IF a.status # "ok" THEN [file |-> a.file, status |-> a.status]
        ELSE InsertInto(a.file, a.header, row_bytes,
                        OffsetSize + a.header.used + size)

\* ------------------------------------------------------------ delete_row
\* What the callback of delete_row hands on: how it ended, the page, the
\* slot count and the used value
Deleted(status, page, ptr_count, new_used) ==
    [status |-> status, page |-> page, ptr_count |-> ptr_count,
     new_used |-> new_used]

\* The for-loop of delete_row over remaining_index: every slot from
\* ptr_index on moves one place to the left, less the size of the deleted row
ShiftSlots(page, ptr_index, ptr_count, row_size) ==
    LET Moved(remaining_index) ==
            OffsetToBytes(OffsetAt(page, (remaining_index + 1) * OffsetSize)
                          + OffsetMod - row_size)
    IN  [i \in 1..Len(page) |->
            LET remaining_index == (i - 1) \div OffsetSize
            IN  IF remaining_index >= ptr_index /\ remaining_index < ptr_count
                THEN Moved(remaining_index)[((i - 1) % OffsetSize) + 1]
                ELSE page[i]]

\* The then-branch of delete_row: the rows behind the deleted one move over
\* it, then the slots
RemoveRow(page, ptr_index, ptr_count, data_start, data_end, last_offset) ==
    LET remainder_bytes == Slice(page, Len(page) - last_offset, data_start)
        moved == CopyFromSlice(page, data_end - Len(remainder_bytes),
                               remainder_bytes)
    IN  ShiftSlots(moved, ptr_index, ptr_count, data_end - data_start)

\* new_used -= row_size + ptr_size on a usize
SubUsed(new_used, amount, checked) ==
    IF new_used = Huge THEN Huge
    ELSE IF new_used >= amount THEN new_used - amount
    ELSE IF checked THEN None ELSE Huge

\* The slot the loop looks at after a deletion, stepping on as after a row
\* that stays
AfterDeletionAdvance(ptr_index) == ptr_index + 1

\* The slot the loop of delete_row looks at after a deletion: the same one,
\* which now holds the row that followed (ptr_index is left as it is)
AfterDeletion(ptr_index) == ptr_index

\* new_data_offset -= row_size underflows for some slot that moves
SlotUnderflow(page, ptr_index, ptr_count, row_size) ==
    \E remaining_index \in ptr_index..(ptr_count - 1) :
        OffsetAt(page, (remaining_index + 1) * OffsetSize) < row_size

\* The while-loop of the callback of delete_row, from slot ptr_index on
RECURSIVE DeleteLoop(_, _, _, _, _, _, _, _)
DeleteLoop(page, ptr_index, ptr_count, previous_data_offset, new_used, col_data, predicate, checked) ==
    IF ptr_index >= ptr_count THEN Deleted("ok", page, ptr_count, new_used)
    ELSE IF ~InRange(page, ptr_count * OffsetSize, (ptr_count + 1) * OffsetSize)
    THEN Deleted("panic", page, ptr_count, new_used)
    ELSE LET last_offset == OffsetAt(page, ptr_count * OffsetSize)
             data_offset == OffsetAt(page, (ptr_index + 1) * OffsetSize)
             data_start == Len(page) - data_offset
             data_end == Len(page) - previous_data_offset
             value == RowFromBytes(Slice(page, data_start, data_end),
                                   ColTypes(col_data))
             fulfills == row_fulfills(col_data, value.val, predicate)
             used == SubUsed(new_used, data_end - data_start + OffsetSize,
                             checked)
         IN  IF ~InRange(page, data_start, data_end)
             THEN Deleted("panic", page, ptr_count, new_used)
             ELSE IF value.status # "ok"
             THEN Deleted(value.status, page, ptr_count, new_used)
             ELSE IF fulfills.status # "ok"
             THEN Deleted("err", page, ptr_count, new_used)
             ELSE IF ~fulfills.val
             THEN DeleteLoop(page, ptr_index + 1, ptr_count, data_offset,
                             new_used, col_data, predicate, checked)
             ELSE IF ~InRange(page, Len(page) - last_offset, data_start)
             THEN Deleted("panic", page, ptr_count, new_used)
             ELSE IF used = None
             THEN Deleted("panic", page, ptr_count, new_used)
             ELSE IF /\ checked
                     /\ SlotUnderflow(page, ptr_index, ptr_count,
                                      data_end - data_start)
             THEN Deleted("panic", page, ptr_count, new_used)
             ELSE DeleteLoop(
                      RemoveRow(page, ptr_index, ptr_count, data_start,
                                data_end, last_offset),
                      AfterDeletion(ptr_index), ptr_count - 1,
                      previous_data_offset, used, col_data, predicate, checked)

\* The callback of delete_row on one page: the loop, then the write of the
\* page if used changed (the result of write_page is dropped)
DeleteInPage(f, header, col_data, predicate, checked) ==
    LET page == PageBytes(read_page(f, header))
        d == DeleteLoop(page, 0, OffsetAt(page, 0), 0, header.used, col_data,
                        predicate, checked)
    IN  IF d.status # "ok" THEN [file |-> f, status |-> d.status]
        ELSE IF d.new_used = header.used THEN [file |-> f, status |-> "ok"]
        ELSE [file |-> write_page(f, header,
                           PageOfBytes(CopyFromSlice(d.page, 0,
                                           OffsetToBytes(d.ptr_count))),
                           d.new_used).file,
              status |-> "ok"]

\* iterate_pages with the callback of delete_row, which never asks to stop,
\* from the i-th header of the walk on; an Err of the callback ends it
RECURSIVE DeletePages(_, _, _, _, _, _)
DeletePages(f, headers, i, col_data, predicate, checked) ==
    LET d == DeleteInPage(f, headers[i], col_data, predicate, checked)
    IN  IF i > Len(headers) THEN [file |-> f, status |-> "ok"]
        ELSE IF d.status # "ok" THEN d
        ELSE DeletePages(d.file, headers, i + 1, col_data, predicate, checked)

\* SimpleTableHandler::delete_row
delete_row(f, col_data, predicate, checked) ==
    LET r == iterate_headers_from(f, GetFirst, {})
    IN  IF r.status # "ok" THEN [file |-> f, status |-> r.status]
        ELSE DeletePages(f, r.visited, 1, col_data, predicate, checked)

\* ---------------------------------------------------- select_row and next
NoRow == <<>>

\* What a scan hands on: "found" with the row, the page's header, the index
\* just past the row and the row's offset, or "none", "err", "panic"
Scanned(status, row, header, ptr_index, data_offset) ==
    [status |-> status, row |-> row, header |-> header,
     ptr_index |-> ptr_index, data_offset |-> data_offset]

\* The for-loop of the callbacks of select_row and next over the slots of
\* one page from ptr_index on
RECURSIVE ScanPage(_, _, _, _, _, _)
ScanPage(page, header, col_data, predicate, ptr_index, last_data_offset) ==
    IF ptr_index >= OffsetAt(page, 0)
    THEN Scanned("none", NoRow, NoHeader, 0, 0)
    ELSE IF ~InRange(page, (ptr_index + 1) * OffsetSize,
                     (ptr_index + 2) * OffsetSize)
    THEN Scanned("panic", NoRow, NoHeader, 0, 0)
    ELSE LET data_offset == OffsetAt(page, (ptr_index + 1) * OffsetSize)
             start == Len(page) - data_offset
             end == Len(page) - last_data_offset
             row == RowFromBytes(Slice(page, start, end), ColTypes(col_data))
             fulfills == row_fulfills(col_data, row.val, predicate)
         IN  IF ~InRange(page, start, end)
             THEN Scanned("panic", NoRow, NoHeader, 0, 0)
             ELSE IF row.status # "ok"
             THEN Scanned(row.status, NoRow, NoHeader, 0, 0)
             ELSE IF fulfills.status # "ok"
             THEN Scanned("err", NoRow, NoHeader, 0, 0)
             ELSE IF fulfills.val
             THEN Scanned("found", row.val, header, ptr_index + 1, data_offset)
             ELSE ScanPage(page, header, col_data, predicate, ptr_index + 1,
                           data_offset)

\* The index and offset next enters the following pages with when they
\* stay those of the cursor
AfterPageKeep(initial) == initial

\* The index and offset next enters the following pages with:
\* initial_ptr_index = 0 and initial_last_data_offset = 0
AfterPage(initial) == 0

\* iterate_pages_from with the callback of select_row or next, from the
\* i-th header of the walk on
RECURSIVE ScanPages(_, _, _, _, _, _, _)
ScanPages(f, headers, i, col_data, predicate, ptr_index, last_data_offset) ==
    LET s == ScanPage(PageBytes(read_page(f, headers[i])), headers[i],
                      col_data, predicate, ptr_index, last_data_offset)
    IN  IF i > Len(headers) THEN Scanned("none", NoRow, NoHeader, 0, 0)
        ELSE IF s.status # "none" THEN s
        ELSE ScanPages(f, headers, i + 1, col_data, predicate,
                       AfterPage(ptr_index), AfterPage(last_data_offset))

\* SimpleTableHandler::select_row, without a column list
select_row(f, col_data, predicate) ==
    LET r == iterate_headers_from(f, GetFirst, {})
    IN  IF r.status = "err" THEN Scanned("err", NoRow, NoHeader, 0, 0)
        ELSE ScanPages(f, r.visited, 1, col_data, predicate, 0, 0)

\* SimpleTableHandler::next
next(f, col_data, cursor_in) ==
    LET r == iterate_headers_from(f, cursor_in.header, {})
    IN  IF r.status = "err" THEN Scanned("err", NoRow, NoHeader, 0, 0)
        ELSE ScanPages(f, r.visited, 1, col_data, cursor_in.predicate,
                       cursor_in.ptr_index, cursor_in.data_offset)

\* ----------------------------------------------------------- table views
\* The row in slot k (1-based) of a data page, by the page layout: its
\* bytes lie between the offsets of slot k and slot k - 1 from the page end
SlotRow(page, k, col_types) ==
    LET to == Len(page) - (IF k = 1 THEN 0 ELSE OffsetAt(page, (k - 1) * OffsetSize))
        from == Len(page) - OffsetAt(page, k * OffsetSize)
    IN  IF InRange(page, from, to)
        THEN RowFromBytes(Slice(page, from, to), col_types)
        ELSE Panic

\* The rows of a data page in slot order
PageRows(page, col_types) ==
    IF InRange(page, 0, (OffsetAt(page, 0) + 1) * OffsetSize)
    THEN [k \in 1..OffsetAt(page, 0) |-> SlotRow(page, k, col_types)]
    ELSE <<Panic>>

\* The rows of the table in page-chain order and slot order
TableRows(f, col_data) ==
    LET all == AllHeaders(f, GetFirst)
    IN  Flatten([i \in 1..Len(all) |->
            PageRows(PageBytes(read_page(f, all[i])), ColTypes(col_data))])

\* The rows of rs (decoded rows) that satisfy the predicate
Matching(rs, col_data, predicate) ==
    LET Fulfills(r) == row_fulfills(col_data, r.val, predicate)
        Test(r) == Fulfills(r).status = "ok" /\ Fulfills(r).val
    IN  SelectSeq(rs, Test)

\* The rows of rs that do not satisfy the predicate
NotMatching(rs, col_data, predicate) ==
    LET Fulfills(r) == row_fulfills(col_data, r.val, predicate)
        Test(r) == Fulfills(r).status = "ok" /\ ~Fulfills(r).val
    IN  SelectSeq(rs, Test)

\* ----------------------------------------------------------- table inputs
\* The columns of the table: a text column and a number column
TableCols ==
    <<[type |-> "Text", name |-> "Name"], [type |-> "Number", name |-> "Age"]>>

\* A name of n bytes, all the character ch
NameOf(n, ch) == Text([i \in 1..n |-> ch])
ShortName == NameOf(ShortLen, 97)
LongName == NameOf(LongLen, 98)

\* Rows that fit into an empty page together with slot count and slot
FittingRows == {<<ShortName, Number(1)>>, <<LongName, Number(2)>>}

\* Rows that do not fit into an empty page: of PAGE_SIZE - 3 bytes, one
\* byte too many beside slot count and slot, and of PAGE_SIZE + 1 bytes
EdgeRows ==
    {<<NameOf(PAGE_SIZE - 12 - d, 99), Number(3)>> : d \in {3, -1}}

\* Predicates of delete_row and select_row: none, one on Age, one on Name,
\* and one on a column the table does not have
Predicates ==
    {NoPredicate,
     Predicate("Age", "equal", Number(1)),
     Predicate("Name", "bigger", ShortName),
     Predicate("Id", "equal", Number(1))}

\* -------------------------------------------------------- table actions
\* The result of the last table operation: the operation, how it ended,
\* its row or predicate, and the rows of the table before it
TableRet(op, status, row, predicate, before) ==
    [op |-> op, status |-> status, row |-> row, predicate |-> predicate,
     before |-> before]

\* What the table operations leave alone
TableFrame ==
    UNCHANGED <<held, ret, live, allocated, onlyAlloc, pre, allocs, freed,
                fileVars, readVars, raceVars, convVars, execVars, srvVars,
                regVars, lockVars, insertVars>>

\* insert_row(row), while no scan is open
InsertRow(row) ==
    \E checked \in BOOLEAN :
        LET r == insert_row(TheFile, row, checked)
        IN  /\ cursor = NoCursor
            /\ inserts < MaxInserts
            /\ InBounds(r.file)
            /\ head' = r.file.head
            /\ pages' = r.file.pages
            /\ inserts' = inserts + 1
            /\ tret' = TableRet("insert_row", r.status, row, NoPredicate,
                                TableRows(TheFile, TableCols))
            /\ yielded' = <<>>
            /\ UNCHANGED cursor
            /\ TableFrame

\* delete_row(predicate), while no scan is open
DeleteRow ==
    \E predicate \in Predicates, checked \in BOOLEAN :
        LET r == delete_row(TheFile, TableCols, predicate, checked)
        IN  /\ cursor = NoCursor
            /\ head' = r.file.head
            /\ pages' = r.file.pages
            /\ tret' = TableRet("delete_row", r.status, NoRow, predicate,
                                TableRows(TheFile, TableCols))
            /\ yielded' = <<>>
            /\ UNCHANGED <<cursor, inserts>>
            /\ TableFrame

\* select_row(predicate, None): opens a scan if it finds a row
SelectRow ==
    \E predicate \in Predicates :
        LET s == select_row(TheFile, TableCols, predicate)
        IN  /\ cursor = NoCursor
            /\ tret' = TableRet("select_row", s.status, s.row, predicate, <<>>)
            /\ yielded' = IF s.status = "found" THEN <<s.row>> ELSE <<>>
            /\ cursor' = IF s.status = "found"
                         THEN Cursor(s.header, s.ptr_index, s.data_offset,
                                     predicate)
                         ELSE NoCursor
            /\ UNCHANGED <<head, pages, inserts>>
            /\ TableFrame

\* next(cursor) on the open scan; the scan is closed once it returns no row
NextRow ==
    LET s == next(TheFile, TableCols, cursor)
    IN  /\ cursor # NoCursor
        /\ tret' = TableRet("next", s.status, s.row, cursor.predicate, <<>>)
        /\ yielded' = IF s.status = "found" THEN Append(yielded, s.row)
                      ELSE yielded
        /\ cursor' = IF s.status = "found"
                     THEN Cursor(s.header, s.ptr_index, s.data_offset,
                                 cursor.predicate)
                     ELSE NoCursor
        /\ UNCHANGED <<head, pages, inserts>>
        /\ TableFrame

\* A table that is given rows that fit a page
NextTable ==
    \/ \E row \in FittingRows : InsertRow(row)
    \/ DeleteRow
    \/ SelectRow
    \/ NextRow

SpecTable == Init /\ [][NextTable]_vars

\* alloc_page on the page store of the table, right after a delete_row that
\* deleted every row of a table that held rows; before: the ids of the
\* table's data pages
AllocEmptied ==
    LET a == alloc_page(TheFile)
        all == AllHeaders(TheFile, GetFirst)
    IN  /\ cursor = NoCursor
        /\ tret.op = "delete_row"
        /\ tret.status = "ok"
        /\ tret.before # <<>>
        /\ TableRows(TheFile, TableCols) = <<>>
        /\ InBounds(a.file)
        /\ head' = a.file.head
        /\ pages' = a.file.pages
        /\ tret' = TableRet("alloc_page", a.status, a.header, NoPredicate,
                            [i \in 1..Len(all) |-> all[i].id])
        /\ UNCHANGED <<cursor, yielded, inserts>>
        /\ TableFrame

\* A table whose page store is asked for a page after the table was emptied
NextTableReuse ==
    \/ \E row \in FittingRows : InsertRow(row)
    \/ DeleteRow
    \/ SelectRow
    \/ NextRow
    \/ AllocEmptied

SpecTableReuse == Init /\ [][NextTableReuse]_vars

\* A table that is given rows of every size
NextTableAny ==
    \/ \E row \in FittingRows \cup EdgeRows : InsertRow(row)
    \/ DeleteRow
    \/ SelectRow
    \/ NextRow

SpecTableAny == Init /\ [][NextTableAny]_vars

\* A table that is given rows of every size, by calls of insert_row and
\* delete_row that all return Ok
NextTableOk ==
    \/ \E row \in FittingRows \cup EdgeRows :
           InsertRow(row) /\ tret'.status = "ok"
    \/ DeleteRow /\ tret'.status = "ok"

SpecTableOk == Init /\ [][NextTableOk]_vars

\* ----------------------------------------------------------- cols_to_row
\* The characters '+' and '0'
Plus == 43
Zero == 48

\* str::parse::<u64>: an optional '+', then one or more decimal digits (the
\* model's strings are too short to overflow a u64)
ParseNumber(str) ==
    LET digits == IF str # <<>> /\ str[1] = Plus THEN Tail(str) ELSE str
        Value[i \in 0..Len(digits)] ==
            IF i = 0 THEN 0 ELSE 10 * Value[i - 1] + (digits[i] - Zero)
    IN  IF digits # <<>> /\ \A i \in 1..Len(digits) : digits[i] \in Zero..(Zero + 9)
        THEN Ok(Number(Value[Len(digits)]))
        ELSE Err

\* SimpleTableHandler::validate_cols: the names are a subset of the names
\* of col_data
validate_cols(col_data, col_names) ==
    Range(col_names) \subseteq {col_data[i].name : i \in 1..Len(col_data)}

\* cols.sort_by_key(position of the name in col_data): a stable sort
SortByPosition(col_data, cols) ==
    LET At(k) == LET Test(c) == Position(col_data, c.name) = k
                 IN  SelectSeq(cols, Test)
    IN  Flatten([k \in 1..Len(col_data) |-> At(k)])

\* The loop of cols_to_row over the sorted pairs from index (1-based) on:
\* the type is that of col_data[index]
RECURSIVE ColsToValues(_, _, _)
ColsToValues(col_data, cols, index) ==
    IF index > Len(cols) THEN Ok(<<>>)
    ELSE IF index > Len(col_data) THEN Panic
    ELSE LET col == IF col_data[index].type = "Text"
                    THEN Ok(Text(cols[index].value))
                    ELSE ParseNumber(cols[index].value)
             rest == ColsToValues(col_data, cols, index + 1)
         IN  IF col.status # "ok" THEN col
             ELSE IF rest.status # "ok" THEN rest
             ELSE Ok(<<col.val>> \o rest.val)

\* Option<Vec<String>>: None
NoNames == <<"">>

\* SimpleTableHandler::cols_to_row
cols_to_row(col_data, col_names_option, col_values) ==
    LET col_names == IF col_names_option = NoNames
                     THEN [i \in 1..Len(col_data) |-> col_data[i].name]
                     ELSE col_names_option
        cols == [i \in 1..Len(col_names) |->
                    [name |-> col_names[i], value |-> col_values[i]]]
    IN  IF col_names_option # NoNames /\ ~validate_cols(col_data, col_names)
        THEN Err
        ELSE IF Len(col_names) # Len(col_values) THEN Err
        ELSE ColsToValues(col_data, SortByPosition(col_data, cols), 1)

\* The columns of the table of cols_to_row_test
TestCols ==
    <<[type |-> "Text", name |-> "Name"], [type |-> "Text", name |-> "Surname"],
      [type |-> "Number", name |-> "Age"]>>

\* Sequences over a set of at most n elements
SeqsUpTo(S, n) == UNION {[1..k -> S] : k \in 0..n}

\* Column name lists: none, and up to MaxCols names of the table or not
NameLists ==
    {NoNames} \cup SeqsUpTo({"Name", "Surname", "Age", "Wrong"}, MaxCols)

\* Value lists: "bob", "2" and "x2"
ValueLists == SeqsUpTo({<<98, 111, 98>>, <<50>>, <<120, 50>>}, MaxCols)

\* One call cols_to_row(col_names, col_values)
ColsToRow ==
    \E col_names \in NameLists, col_values \in ValueLists :
        /\ conv.op = "none"
        /\ conv' = [op |-> "cols_to_row", col_names |-> col_names,
                    col_values |-> col_values,
                    result |-> cols_to_row(TestCols, col_names, col_values)]
        /\ UNCHANGED <<storeVars, fileVars, readVars, raceVars, tableVars,
                     execVars, srvVars, regVars, lockVars, insertVars>>

SpecCols == Init /\ [][ColsToRow]_vars

\* ------------------------------------------------------------- row codec
\* Column values: "", "text", the numbers 0 and 123, and the two texts
\* with which a one-column row has OffsetMod - 1 and OffsetMod bytes
CodecValues ==
    {Text(<<>>), Text(<<116, 101, 120, 116>>), Number(0), Number(123)}
    \cup {NameOf(OffsetMod - OffsetSize - d, 97) : d \in {1, 0}}
CodecRows == SeqsUpTo(CodecValues, MaxCols)

\* let row_bytes : Vec<u8> = row.into(); Row::try_from((row_bytes, col_types))
RowCodec ==
    \E row \in CodecRows :
        /\ conv.op = "none"
        /\ conv' = [op |-> "row_codec", row |-> row,
                    len |-> Len(RowToBytes(row)),
                    result |-> RowFromBytes(RowToBytes(row),
                                            [i \in 1..Len(row) |-> row[i].type])]
        /\ UNCHANGED <<storeVars, fileVars, readVars, raceVars, tableVars,
                     execVars, srvVars, regVars, lockVars, insertVars>>

SpecCodec == Init /\ [][RowCodec]_vars

\* ------------------------------------------------------------ Query::from
\* \w of the tokenizer's regex, for the bytes of the model's texts: 'a'
\* and '1'
IsWord(byte) == byte \in {97, 49}

\* The alternatives of the regex after \w+, in its order:
\* [();,*] >= > == != < <=
Alternatives ==
    <<<<40>>, <<41>>, <<59>>, <<44>>, <<42>>, <<62, 61>>, <<62>>,
      <<61, 61>>, <<33, 61>>, <<60>>, <<60, 61>>>>

\* The text has the bytes of word at index i
StartsAt(text, i, word) ==
    /\ i + Len(word) - 1 <= Len(text)
    /\ SubSeq(text, i, i + Len(word) - 1) = word

\* The length of the longest run of \w bytes of the text from index i
RECURSIVE WordRun(_, _)
WordRun(text, i) ==
    IF i > Len(text) \/ ~IsWord(text[i]) THEN 0
    ELSE 1 + WordRun(text, i + 1)

\* The match of the regex that starts at index i: \w+ is greedy, and of
\* the other alternatives the first in the order of the regex that
\* matches is taken. 0 if there is no match at i
MatchAt(text, i) ==
    LET matching == {k \in 1..Len(Alternatives) :
                        StartsAt(text, i, Alternatives[k])}
        first == CHOOSE k \in matching : \A other \in matching : k <= other
    IN  IF WordRun(text, i) > 0 THEN WordRun(text, i)
        ELSE IF matching = {} THEN 0
        ELSE Len(Alternatives[first])

\* regex.find_iter(q): the matches from left to right, none overlapping;
\* a byte at which nothing matches is passed over
RECURSIVE find_iter(_, _)
find_iter(text, i) ==
    IF i > Len(text) THEN <<>>
    ELSE IF MatchAt(text, i) = 0 THEN find_iter(text, i + 1)
    ELSE <<SubSeq(text, i, i + MatchAt(text, i) - 1)>>
             \o find_iter(text, i + MatchAt(text, i))

\* The Option `operator` of Query::from: terminals and the values they
\* are wrapped with, in its order
OperatorOptions ==
    <<[terminal |-> <<61, 61>>, val |-> "equal"],
      [terminal |-> <<33, 61>>, val |-> "not_equal"],
      [terminal |-> <<60>>, val |-> "less"],
      [terminal |-> <<60, 61>>, val |-> "less_equal"],
      [terminal |-> <<62>>, val |-> "bigger"],
      [terminal |-> <<62, 61>>, val |-> "bigger_equal"]>>

\* Option of Wrapper(Terminal): the val of the first option whose
\* terminal is the word, "" if there is none
SolveOperator(word) ==
    LET fitting == {k \in 1..Len(OperatorOptions) :
                       OperatorOptions[k].terminal = word}
        first == CHOOSE k \in fitting : \A other \in fitting : k <= other
    IN  IF fitting = {} THEN "" ELSE OperatorOptions[first].val

\* bnf::solve for the symbols between `where` and `;`, that is
\* Value(predicate_col), operator, Value(predicate_val), on the words of
\* the text: a Value takes any word, and no word may be left over
SolvePredicate(text) ==
    LET input == find_iter(text, 1)
    IN  IF Len(input) # 3 \/ SolveOperator(input[2]) = "" THEN Err
        ELSE Ok([predicate_col |-> input[1],
                 operator |-> SolveOperator(input[2]),
                 predicate_val |-> input[3]])

\* Texts of at most MaxQueryLen bytes of 'a', '1', '<', '>', '=' and '!'
QueryTexts == SeqsUpTo({97, 49, 60, 62, 61, 33}, MaxQueryLen)

\* One call of Query::from for `... where <text>;`
QueryFrom ==
    \E text \in QueryTexts :
        /\ conv.op = "none"
        /\ conv' = [op |-> "query", text |-> text,
                    result |-> SolvePredicate(text)]
        /\ UNCHANGED <<storeVars, fileVars, readVars, raceVars, tableVars,
                       execVars, srvVars, regVars, lockVars, insertVars>>

SpecQuery == Init /\ [][QueryFrom]_vars

\* ---------------------------------------------------- TableSchemaHandler
\* The columns of the schema table
SchemaCols ==
    <<[type |-> "Text", name |-> "table_id"],
      [type |-> "Text", name |-> "col_name"],
      [type |-> "Number", name |-> "col_type"],
      [type |-> "Number", name |-> "col_id"]>>

\* impl Into<u64> for Type and impl TryFrom<u64> for Type
TypeToNumber(type) == IF type = "Number" THEN 0 ELSE 1
TypeFromNumber(value) ==
    IF value = 0 THEN Ok("Number") ELSE IF value = 1 THEN Ok("Text") ELSE Err

\* impl PartialEq for Value
ValueEq(a, b) == a.type = b.type /\ a.val = b.val

\* Predicate{column: "table_id", operator: Operator::Equal, value: table}
OfTable(table) == Predicate("table_id", "equal", Text(table))

\* The cursor select_row and next hand back with a row
CursorOf(s, predicate) ==
    Cursor(s.header, s.ptr_index, s.data_offset, predicate)

\* The loop of add_col_data over the rows of the scan: AddColLoop is the
\* body for the row of s, with the count of the rows before it, and
\* AddColNext what follows the call of next
RECURSIVE AddColLoop(_, _, _, _, _)
RECURSIVE AddColNext(_, _, _, _, _)
AddColLoop(f, s, predicate, name, index) ==
    IF \E k \in 1..Len(s.row) : ValueEq(Text(name), s.row[k])
    THEN [status |-> "already_exists", index |-> index + 1]
    ELSE AddColNext(f, next(f, SchemaCols, CursorOf(s, predicate)),
                    predicate, name, index + 1)

AddColNext(f, following, predicate, name, index) ==
    IF following.status = "found"
    THEN AddColLoop(f, following, predicate, name, index)
    ELSE IF following.status = "none"
    THEN [status |-> "ok", index |-> index]
    ELSE [status |-> following.status, index |-> index]

\* add_col_data from the result s of its select_row up to the end of the
\* loop: how the loop ended and the index it counted
AddColCount(f, s, table, name) ==
    IF s.status = "found" THEN AddColLoop(f, s, OfTable(table), name, 0)
    ELSE IF s.status = "none" THEN [status |-> "ok", index |-> 0]
    ELSE [status |-> s.status, index |-> 0]

\* add_col_data after the loop: insert_row of (table, name, type, index)
AddColInsert(f, table, col, checked, counted) ==
    IF counted.status # "ok" THEN [file |-> f, status |-> counted.status]
    ELSE insert_row(f, <<Text(table), Text(col.name),
                         Number(TypeToNumber(col.type)),
                         Number(counted.index)>>, checked)

\* TableSchemaHandler::add_col_data
add_col_data(f, table, col, checked) ==
    AddColInsert(f, table, col, checked,
        AddColCount(f, select_row(f, SchemaCols, OfTable(table)), table,
                    col.name))

\* (table_id, col_id, col_name, Type::try_from(col_type)) of a row of the
\* scan; get_col_data does not read the table_id
ColOfRow(row) ==
    [table_id |-> row[Position(SchemaCols, "table_id")].val,
     col_id |-> row[Position(SchemaCols, "col_id")].val,
     name |-> row[Position(SchemaCols, "col_name")].val,
     type |-> TypeFromNumber(row[Position(SchemaCols, "col_type")].val)]

\* The columns from a row on: the row's column before those of the rows
\* after it
GetColRest(this, rest) ==
    IF rest.status # "ok" THEN rest ELSE Ok(<<this>> \o rest.val)

\* The loop of get_col_data: GetColLoop is the body for the row of s,
\* GetColNext what follows the call of next; the result is the list of
\* (col_id, col_name, col_type) from the row of s on
RECURSIVE GetColLoop(_, _, _)
RECURSIVE GetColNext(_, _, _, _)
GetColLoop(f, s, predicate) ==
    IF ColOfRow(s.row).type.status # "ok" THEN Err
    ELSE GetColNext(f, next(f, SchemaCols, CursorOf(s, predicate)), predicate,
                    [ColOfRow(s.row) EXCEPT !.type = @.val])

GetColNext(f, following, predicate, this) ==
    IF following.status = "none" THEN Ok(<<this>>)
    ELSE IF following.status # "found"
    THEN [status |-> following.status, val |-> <<>>]
    ELSE GetColRest(this, GetColLoop(f, following, predicate))

\* col_data.sort_by(|(a, _, _), (b, _, _)| a.cmp(b)): a stable sort
RECURSIVE SortByColId(_)
SortByColId(col_data) ==
    IF col_data = <<>> THEN <<>>
    ELSE LET least == CHOOSE i \in 1..Len(col_data) :
                          \A j \in 1..Len(col_data) :
                              \/ col_data[i].col_id < col_data[j].col_id
                              \/ col_data[i].col_id = col_data[j].col_id /\ i <= j
             others == [j \in 1..(Len(col_data) - 1) |->
                           col_data[IF j < least THEN j ELSE j + 1]]
         IN  <<col_data[least]>> \o SortByColId(others)

\* get_col_data after its select_row returned s: the loop, the sort and
\* the map to (type, name)
GetColSorted(col_data) ==
    IF col_data.status # "ok" THEN col_data
    ELSE Ok([i \in 1..Len(col_data.val) |->
                [type |-> SortByColId(col_data.val)[i].type,
                 name |-> SortByColId(col_data.val)[i].name]])

GetColFrom(f, s, predicate) ==
    IF s.status = "none" THEN Ok(<<>>)
    ELSE IF s.status # "found" THEN [status |-> s.status, val |-> <<>>]
    ELSE GetColSorted(GetColLoop(f, s, predicate))

\* TableSchemaHandler::get_col_data
get_col_data(f, table) ==
    GetColFrom(f, select_row(f, SchemaCols, OfTable(table)), OfTable(table))

\* TableSchemaHandler::remove_table_data
remove_table_data(f, table, checked) ==
    delete_row(f, SchemaCols, OfTable(table), checked)

\* Table names "t" and "u"; columns (Text, "a"), (Number, "b") and a
\* column that has the name of the table "t"
SchemaTables == {<<116>>, <<117>>}
SchemaColumns ==
    {[type |-> "Text", name |-> <<97>>], [type |-> "Number", name |-> <<98>>],
     [type |-> "Number", name |-> <<116>>]}

\* add_col_data(table, col); the result holds the rows of the schema table
\* and the columns of the table before the call
AddColData ==
    \E table \in SchemaTables, col \in SchemaColumns, checked \in BOOLEAN :
        LET r == add_col_data(TheFile, table, col, checked)
        IN  /\ cursor = NoCursor
            /\ inserts < MaxAdds
            /\ InBounds(r.file)
            /\ head' = r.file.head
            /\ pages' = r.file.pages
            /\ inserts' = inserts + 1
            /\ tret' = [op |-> "add_col_data", status |-> r.status,
                        table |-> table, col |-> col,
                        before |-> TableRows(TheFile, SchemaCols),
                        cols |-> get_col_data(TheFile, table)]
            /\ yielded' = <<>>
            /\ UNCHANGED cursor
            /\ TableFrame

\* get_col_data(table)
GetColData ==
    \E table \in SchemaTables :
        LET r == get_col_data(TheFile, table)
        IN  /\ cursor = NoCursor
            /\ tret' = TableRet("get_col_data", r.status, r.val,
                                OfTable(table), <<>>)
            /\ UNCHANGED <<head, pages, inserts, cursor, yielded>>
            /\ TableFrame

\* remove_table_data(table)
RemoveTableData ==
    \E table \in SchemaTables, checked \in BOOLEAN :
        LET r == remove_table_data(TheFile, table, checked)
        IN  /\ cursor = NoCursor
            /\ head' = r.file.head
            /\ pages' = r.file.pages
            /\ tret' = TableRet("remove_table_data", r.status, NoRow,
                                OfTable(table), TableRows(TheFile, SchemaCols))
            /\ yielded' = <<>>
            /\ UNCHANGED <<cursor, inserts>>
            /\ TableFrame

NextSchema ==
    \/ AddColData
    \/ GetColData
    \/ RemoveTableData

SpecSchema == Init /\ [][NextSchema]_vars

\* TableSchemaHandler::get_table_data after its select_row returned s: the
\* columns of each table that has rows, sorted by col_id
TableDataFrom(col_data) ==
    IF col_data.status # "ok" THEN col_data
    ELSE Ok({[name |-> table_id,
              col_data |->
                  LET Mine(c) == c.table_id = table_id
                      sorted == SortByColId(SelectSeq(col_data.val, Mine))
                  IN  [i \in 1..Len(sorted) |->
                          [type |-> sorted[i].type, name |-> sorted[i].name]]]
             : table_id \in {col_data.val[i].table_id :
                                i \in 1..Len(col_data.val)}})

GetTableFrom(f, s) ==
    IF s.status = "none" THEN Ok({})
    ELSE IF s.status # "found" THEN [status |-> s.status, val |-> {}]
    ELSE TableDataFrom(GetColLoop(f, s, NoPredicate))

\* TableSchemaHandler::get_table_data: the map from table name to columns,
\* as a set of (name, col_data)
get_table_data(f) == GetTableFrom(f, select_row(f, SchemaCols, NoPredicate))

\* =============================================================== Executor
\* impl TryFrom<String> for Type
TypeFromString(value) ==
    IF value = "text" THEN Ok("Text")
    ELSE IF value = "number" THEN Ok("Number")
    ELSE Err

\* tables.iter().position(|(t, _)| *t == table_name), 1-based, 0 for None
TableIndex(tbls, table_name) ==
    IF \E i \in 1..Len(tbls) : tbls[i].name = table_name
    THEN CHOOSE i \in 1..Len(tbls) :
             /\ tbls[i].name = table_name
             /\ \A j \in 1..(i - 1) : tbls[j].name # table_name
    ELSE 0

\* The loop of create that combines col_types and col_names to col_data
CombineCols(col_types, col_names) ==
    IF \E i \in 1..Len(col_types) : TypeFromString(col_types[i]).status # "ok"
    THEN Err
    ELSE Ok([i \in 1..Len(col_types) |->
                [type |-> TypeFromString(col_types[i]).val,
                 name |-> col_names[i]]])

\* for col in col_data { self.schema.add_col_data(table_name, col)?; } from
\* the i-th column on; AddColsNext is what follows the call
RECURSIVE AddColsLoop(_, _, _, _, _)
RECURSIVE AddColsNext(_, _, _, _, _)
AddColsLoop(f, table_name, col_data, i, checked) ==
    IF i > Len(col_data) THEN [file |-> f, status |-> "ok"]
    ELSE AddColsNext(add_col_data(f, table_name, col_data[i], checked),
                     table_name, col_data, i, checked)

AddColsNext(added, table_name, col_data, i, checked) ==
    IF added.status # "ok" THEN added
    ELSE AddColsLoop(added.file, table_name, col_data, i + 1, checked)

\* SimplePageHandler::new at the path of a table: creates and initializes
\* the file if there is none
OpenFile(file) == IF file = NoFile THEN NewFile ELSE file

\* cursors.contains_key(&hash)
ContainsKeyNever(registry, hash) == FALSE
ContainsKey(registry, hash) == registry[hash] # NoEntry

\* Arguments of CREATE: one number column "a", one text column "b", two
\* text columns that are both named "a", a column of an unknown type, and
\* a type without a name
CreateArgs ==
    {[col_types |-> <<"number">>, col_names |-> <<<<97>>>>],
     [col_types |-> <<"text">>, col_names |-> <<<<98>>>>],
     [col_types |-> <<"text", "text">>, col_names |-> <<<<97>>, <<97>>>>],
     [col_types |-> <<"blob">>, col_names |-> <<<<97>>>>],
     [col_types |-> <<"number">>, col_names |-> <<>>]}

\* Values of INSERT, one per statement: "1", "x" and a text that is longer
\* than a page
InsertValues == {<<49>>, <<120>>, [i \in 1..(PAGE_SIZE + 1) |-> 121]}

\* What the commands of the executor leave alone
ExecFrame ==
    UNCHANGED <<storeVars, fileVars, readVars, raceVars, tableVars, convVars,
                srvVars, regVars, lockVars, insertVars>>

\* Thread t starts a command
Starts(t) == ecall[t].pc = "idle" /\ ecount < MaxCommands

\* Thread t returns from its command with a result
Returns(t, result) ==
    /\ ecall' = [ecall EXCEPT ![t] = IdleCall]
    /\ eret' = result

\* Executor::create up to the end of its first lock scope: the table name
\* is looked up under the write lock, which is then released
CreateCheck(t) ==
    \E table_name \in TableNames, args \in CreateArgs :
        /\ Starts(t)
        /\ ecount' = ecount + 1
        /\ IF TableIndex(tables, table_name) # 0
           THEN Returns(t, [op |-> "create", t |-> t, status |-> "err",
                            table_name |-> table_name, args |-> args,
                            known |-> TRUE, dropped |-> dropped[table_name]])
           ELSE /\ ecall' = [ecall EXCEPT ![t] =
                                [pc |-> "create_handler",
                                 table_name |-> table_name, args |-> args]]
                /\ UNCHANGED eret
        /\ UNCHANGED <<schema, tables, cursors, dir, dropped>>
        /\ ExecFrame

\* Executor::create between its lock scopes: col_data is combined and
\* SimpleTableHandler::new opens the table file
CreateHandler(t) ==
    LET c == ecall[t]
        col_data == CombineCols(c.args.col_types, c.args.col_names)
    IN  /\ c.pc = "create_handler"
        /\ IF Len(c.args.col_types) # Len(c.args.col_names)
              \/ col_data.status # "ok"
           THEN /\ Returns(t, [op |-> "create", t |-> t, status |-> "err",
                               table_name |-> c.table_name, args |-> c.args,
                               known |-> FALSE,
                               dropped |-> dropped[c.table_name]])
                /\ UNCHANGED dir
           ELSE /\ dir' = [dir EXCEPT ![c.table_name] = OpenFile(@)]
                /\ ecall' = [ecall EXCEPT ![t] =
                                [c EXCEPT !.pc = "create_insert"]]
                /\ UNCHANGED eret
        /\ UNCHANGED <<schema, tables, cursors, ecount, dropped>>
        /\ ExecFrame

\* Executor::create in its second lock scope: the handler is pushed and
\* the columns are added to the schema until one fails; known tells
\* whether the map had a table of the name when the handler was pushed
CreateInsert(t) ==
    \E checked \in BOOLEAN :
        LET c == ecall[t]
            col_data == CombineCols(c.args.col_types, c.args.col_names).val
            added == AddColsLoop(schema, c.table_name, col_data, 1, checked)
        IN  /\ c.pc = "create_insert"
            /\ InBounds(added.file)
            /\ tables' = Append(tables, [name |-> c.table_name,
                                         col_data |-> col_data])
            /\ schema' = added.file
            /\ Returns(t, [op |-> "create", t |-> t,
                           status |-> IF added.status = "ok" THEN "ok"
                                      ELSE "err",
                           table_name |-> c.table_name, args |-> c.args,
                           known |-> TableIndex(tables, c.table_name) # 0,
                           dropped |-> dropped[c.table_name]])
            /\ UNCHANGED <<cursors, dir, ecount, dropped>>
            /\ ExecFrame

\* Executor::drop in its first lock scope: the table is looked up
DropCheck(t) ==
    \E table_name \in TableNames :
        /\ Starts(t)
        /\ ecount' = ecount + 1
        /\ IF TableIndex(tables, table_name) = 0
           THEN Returns(t, [op |-> "drop", t |-> t, status |-> "err",
                            table_name |-> table_name, known |-> FALSE])
           ELSE /\ ecall' = [ecall EXCEPT ![t] =
                                [pc |-> "drop_schema",
                                 table_name |-> table_name,
                                 col_data |->
                                     tables[TableIndex(tables, table_name)]
                                         .col_data]]
                /\ UNCHANGED eret
        /\ UNCHANGED <<schema, tables, cursors, dir, dropped>>
        /\ ExecFrame

\* self.schema.remove_table_data(table_name)?
DropSchema(t) ==
    \E checked \in BOOLEAN :
        LET c == ecall[t]
            removed == remove_table_data(schema, c.table_name, checked)
        IN  /\ c.pc = "drop_schema"
            /\ schema' = removed.file
            /\ IF removed.status # "ok"
               THEN Returns(t, [op |-> "drop", t |-> t, status |-> "err",
                                table_name |-> c.table_name, known |-> TRUE])
               ELSE /\ ecall' = [ecall EXCEPT ![t] =
                                    [c EXCEPT !.pc = "drop_retain"]]
                    /\ UNCHANGED eret
            /\ UNCHANGED <<tables, cursors, dir, ecount, dropped>>
            /\ ExecFrame

\* tables.retain(|(n, _)| *n != table_name) under the write lock
DropRetain(t) ==
    LET c == ecall[t]
        Other(e) == e.name # c.table_name
    IN  /\ c.pc = "drop_retain"
        /\ tables' = SelectSeq(tables, Other)
        /\ ecall' = [ecall EXCEPT ![t] = [c EXCEPT !.pc = "drop_file"]]
        /\ UNCHANGED <<schema, cursors, dir, eret, ecount, dropped>>
        /\ ExecFrame

\* delete_file of the table file; drop returns Ok
DropFile(t) ==
    LET c == ecall[t]
    IN  /\ c.pc = "drop_file"
        /\ dir' = [dir EXCEPT ![c.table_name] = NoFile]
        /\ dropped' = [dropped EXCEPT ![c.table_name] = c.col_data]
        /\ Returns(t, [op |-> "drop", t |-> t, status |-> "ok",
                       table_name |-> c.table_name, known |-> TRUE])
        /\ UNCHANGED <<schema, tables, cursors, ecount>>
        /\ ExecFrame

\* Executor::insert without column names; stored is what insert_row
\* returned, "none" if it was not called
Insert(t) ==
    \E table_name \in TableNames, col_values \in InsertValues,
       checked \in BOOLEAN :
        LET index == TableIndex(tables, table_name)
            row == cols_to_row(tables[index].col_data, NoNames, <<col_values>>)
            stored == insert_row(dir[table_name], row.val, checked)
            Result(status, was_stored) ==
                [op |-> "insert", t |-> t, status |-> status,
                 table_name |-> table_name, col_values |-> col_values,
                 known |-> index # 0, stored |-> was_stored]
        IN  /\ Starts(t)
            /\ ecount' = ecount + 1
            /\ IF index = 0 THEN Returns(t, Result("err", "none")) /\ UNCHANGED dir
               ELSE IF row.status # "ok"
               THEN Returns(t, Result("err", "none")) /\ UNCHANGED dir
               ELSE /\ InBounds(stored.file)
                    /\ dir' = [dir EXCEPT ![table_name] = stored.file]
                    /\ Returns(t, Result("ok", stored.status))
            /\ UNCHANGED <<schema, tables, cursors, dropped>>
            /\ ExecFrame

\* Executor::select without predicate and column list up to the result of
\* select_row: it returns if there is no row
Select(t) ==
    \E table_name \in TableNames :
        LET index == TableIndex(tables, table_name)
            s == select_row(dir[table_name], tables[index].col_data, NoPredicate)
            Result(status) ==
                [op |-> "select", t |-> t, status |-> status,
                 table_name |-> table_name, known |-> index # 0,
                 hash |-> 0, row |-> NoRow]
        IN  /\ Starts(t)
            /\ ecount' = ecount + 1
            /\ IF index = 0 THEN Returns(t, Result("err"))
               ELSE IF s.status = "none" THEN Returns(t, Result("none"))
               ELSE IF s.status # "found" THEN Returns(t, Result("err"))
               ELSE /\ ecall' = [ecall EXCEPT ![t] =
                                    [pc |-> "select_register",
                                     table_name |-> table_name, row |-> s.row,
                                     cursor |-> CursorOf(s, NoPredicate)]]
                    /\ UNCHANGED eret
            /\ UNCHANGED <<schema, tables, cursors, dir, dropped>>
            /\ ExecFrame

\* One turn of the loop of select that registers the cursor: a random
\* hash is drawn; under the lock of cursors it is tried again if it is a
\* key, and else the cursor is inserted and select returns
SelectRegister(t) ==
    \E hash \in Handles :
        LET c == ecall[t]
        IN  /\ c.pc = "select_register"
            /\ IF ContainsKey(cursors, hash)
               THEN UNCHANGED <<cursors, ecall, eret>>
               ELSE /\ cursors' = [cursors EXCEPT ![hash] =
                                      [table_name |-> c.table_name,
                                       cursor |-> c.cursor]]
                    /\ Returns(t, [op |-> "select", t |-> t,
                                   status |-> "found",
                                   table_name |-> c.table_name,
                                   known |-> TRUE, hash |-> hash,
                                   row |-> c.row])
            /\ UNCHANGED <<schema, tables, dir, ecount, dropped>>
            /\ ExecFrame

\* Executor::delete without predicate
Delete(t) ==
    \E table_name \in TableNames, checked \in BOOLEAN :
        LET index == TableIndex(tables, table_name)
            deleted == delete_row(dir[table_name], tables[index].col_data,
                                  NoPredicate, checked)
            Result(status) ==
                [op |-> "delete", t |-> t, status |-> status,
                 table_name |-> table_name, known |-> index # 0]
        IN  /\ Starts(t)
            /\ ecount' = ecount + 1
            /\ IF index = 0 THEN Returns(t, Result("err")) /\ UNCHANGED dir
               ELSE /\ dir' = [dir EXCEPT ![table_name] = deleted.file]
                    /\ Returns(t, Result(IF deleted.status = "ok" THEN "ok"
                                         ELSE "err"))
            /\ UNCHANGED <<schema, tables, cursors, dropped>>
            /\ ExecFrame

\* Executor::next(hash): the cursor under the hash is advanced in place if
\* a row is found
ExecNext(t) ==
    \E hash \in Handles :
        LET entry == cursors[hash]
            index == TableIndex(tables, entry.table_name)
            s == next(dir[entry.table_name], tables[index].col_data,
                      entry.cursor)
            Result(status, row) ==
                [op |-> "next", t |-> t, status |-> status, hash |-> hash,
                 table_name |-> entry.table_name, known |-> index # 0,
                 row |-> row]
        IN  /\ Starts(t)
            /\ ecount' = ecount + 1
            /\ IF ~ContainsKey(cursors, hash) \/ index = 0
               THEN Returns(t, Result("err", NoRow)) /\ UNCHANGED cursors
               ELSE IF s.status = "found"
               THEN /\ cursors' = [cursors EXCEPT ![hash].cursor =
                                      CursorOf(s, entry.cursor.predicate)]
                    /\ Returns(t, Result("found", s.row))
               ELSE /\ UNCHANGED cursors
                    /\ Returns(t, Result(IF s.status = "none" THEN "none"
                                         ELSE "err", NoRow))
            /\ UNCHANGED <<schema, tables, dir, dropped>>
            /\ ExecFrame

\* Executor::new over the directory of the executor, while no command
\* runs: the table map is built from the keys of get_table_data in any
\* order, every table file is opened, and there are no cursors
Restart ==
    LET table_data == get_table_data(schema)
    IN  /\ \A t \in 1..ExecThreads : ecall[t].pc = "idle"
        /\ ecount < MaxCommands
        /\ ecount' = ecount + 1
        /\ table_data.status = "ok"
        /\ \E order \in [1..Cardinality(table_data.val) -> table_data.val] :
               /\ \A i, j \in DOMAIN order : i # j => order[i] # order[j]
               /\ tables' = order
        /\ dir' = [name \in TableNames |->
                      IF \E e \in table_data.val : e.name = name
                      THEN OpenFile(dir[name]) ELSE dir[name]]
        /\ cursors' = [hash \in Handles |-> NoEntry]
        /\ eret' = [op |-> "new", status |-> "ok", tables |-> tables,
                    cursors |-> cursors, dir |-> dir]
        /\ UNCHANGED <<schema, ecall, dropped>>
        /\ ExecFrame

\* One thread runs CREATE, DROP, INSERT, SELECT, DELETE and next, and the
\* executor is constructed anew between commands
NextExec ==
    \/ CreateCheck(1)
    \/ CreateHandler(1)
    \/ CreateInsert(1)
    \/ DropCheck(1)
    \/ DropSchema(1)
    \/ DropRetain(1)
    \/ DropFile(1)
    \/ Insert(1)
    \/ Select(1)
    \/ SelectRegister(1)
    \/ Delete(1)
    \/ ExecNext(1)
    \/ Restart

SpecExec == Init /\ [][NextExec]_vars

\* The CREATEs of threads that run at once: known column types, a name
\* for every type
RaceCreateArgs ==
    {args \in CreateArgs :
        /\ Len(args.col_types) = Len(args.col_names)
        /\ CombineCols(args.col_types, args.col_names).status = "ok"}

\* Executor::create up to the end of its first lock scope, for one of
\* these CREATEs
RaceCreateCheck(t) ==
    /\ CreateCheck(t)
    /\ IF ecall'[t].pc = "create_handler"
       THEN ecall'[t].args \in RaceCreateArgs
       ELSE eret'.args \in RaceCreateArgs

\* ExecThreads threads run CREATE, INSERT, SELECT and next on one executor
NextExecRace ==
    \/ \E t \in 1..ExecThreads : RaceCreateCheck(t)
    \/ \E t \in 1..ExecThreads : CreateHandler(t)
    \/ \E t \in 1..ExecThreads : CreateInsert(t)
    \/ \E t \in 1..ExecThreads : Insert(t)
    \/ \E t \in 1..ExecThreads : Select(t)
    \/ \E t \in 1..ExecThreads : SelectRegister(t)
    \/ \E t \in 1..ExecThreads : ExecNext(t)

SpecExecRace == Init /\ [][NextExecRace]_vars

\* What the two steps of an INSERT leave alone
InsertFrame ==
    UNCHANGED <<storeVars, fileVars, readVars, raceVars, tableVars, convVars,
                srvVars, regVars, lockVars>>

\* The values of the INSERTs that run at once: "1" and "x"
RaceValues == {<<49>>, <<120>>}

\* Executor::insert up to the read_page of insert_row, under the read
\* lock of tables, which other INSERTs share: the page for the row is
\* found or allocated and read
InsertRead(t) ==
    \E table_name \in TableNames, col_values \in RaceValues,
       checked \in BOOLEAN :
        LET index == TableIndex(tables, table_name)
            row == cols_to_row(tables[index].col_data, NoNames, <<col_values>>)
            f == dir[table_name]
            row_bytes == RowToBytes(row.val)
            size == Len(row_bytes) + OffsetSize
            fit == find_fitting_page(f, size, checked)
            a == alloc_page(f)
            Reads(file, header, used) ==
                /\ InBounds(file)
                /\ dir' = [dir EXCEPT ![table_name] = file]
                /\ ecall' = [ecall EXCEPT ![t] =
                                [pc |-> "insert_write",
                                 table_name |-> table_name, row |-> row.val,
                                 page_header |-> header,
                                 page |-> PageBytes(read_page(file, header)),
                                 used |-> used]]
                /\ UNCHANGED eret
            Result(status) ==
                [op |-> "insert", t |-> t, status |-> status,
                 table_name |-> table_name, col_values |-> col_values,
                 known |-> index # 0, stored |-> "none"]
        IN  /\ Starts(t)
            /\ ecount' = ecount + 1
            /\ IF index = 0 \/ row.status # "ok"
               THEN Returns(t, Result("err")) /\ UNCHANGED <<dir, reported>>
               ELSE IF fit.status # "ok"
               THEN /\ Returns(t, Result("ok"))
                    /\ reported' = [reported EXCEPT ![table_name] =
                                        Append(@, row.val)]
                    /\ UNCHANGED dir
               ELSE IF fit.header # NoHeader
               THEN /\ Reads(f, fit.header, UAdd(fit.header.used, size))
                    /\ UNCHANGED reported
               ELSE IF a.status # "ok"
               THEN /\ InBounds(a.file)
                    /\ dir' = [dir EXCEPT ![table_name] = a.file]
                    /\ Returns(t, Result("ok"))
                    /\ reported' = [reported EXCEPT ![table_name] =
                                        Append(@, row.val)]
               ELSE /\ Reads(a.file, a.header,
                             OffsetSize + a.header.used + size)
                    /\ UNCHANGED reported
            /\ UNCHANGED <<schema, tables, cursors, dropped>>
            /\ InsertFrame

\* insert_row from read_page on, with the page the thread has read, and
\* the return of Executor::insert, which is Ok(()) whatever insert_row
\* returned
InsertWrite(t) ==
    LET c == ecall[t]
        stored == InsertPage(dir[c.table_name], c.page_header, c.page,
                             RowToBytes(c.row), c.used)
    IN  /\ c.pc = "insert_write"
        /\ InBounds(stored.file)
        /\ dir' = [dir EXCEPT ![c.table_name] = stored.file]
        /\ reported' = [reported EXCEPT ![c.table_name] = Append(@, c.row)]
        /\ Returns(t, [op |-> "insert", t |-> t, status |-> "ok",
                       table_name |-> c.table_name, col_values |-> c.row,
                       known |-> TRUE, stored |-> stored.status])
        /\ UNCHANGED <<schema, tables, cursors, ecount, dropped>>
        /\ InsertFrame

\* ExecThreads threads run CREATE and INSERT on one executor
NextInsertRace ==
    \/ \E t \in 1..ExecThreads : RaceCreateCheck(t)
    \/ \E t \in 1..ExecThreads : CreateHandler(t)
    \/ \E t \in 1..ExecThreads : CreateInsert(t)
    \/ \E t \in 1..ExecThreads : InsertRead(t)
    \/ \E t \in 1..ExecThreads : InsertWrite(t)

SpecInsertRace == Init /\ [][NextInsertRace]_vars

\* ================================================================ Server
\* Executor::execute: what a command returns to Server::query, Some for a
\* row and its handle, None for a command that ends without a row
ExecuteResult(returned) ==
    IF returned.status = "err" THEN "Err"
    ELSE IF returned.status = "found" THEN "Some"
    ELSE "None"

\* The status byte that Server::query and Server::next put in front of
\* their response
StatusByte(executed) ==
    IF executed = "Some" THEN 0
    ELSE IF executed = "None" THEN 1
    ELSE 2

\* String::from_utf8 of the bytes of a first message is Ok: the messages
\* here are ASCII but for the byte 255
IsUtf8(bytes) == \A i \in 1..Len(bytes) : bytes[i] < 128

\* credentials.split_once("."): the parts before and after the first '.'
SplitOnce(credentials) ==
    IF \E i \in 1..Len(credentials) : credentials[i] = 46
    THEN LET dot == CHOOSE i \in 1..Len(credentials) :
                        /\ credentials[i] = 46
                        /\ \A j \in 1..(i - 1) : credentials[j] # 46
         IN  [found |-> TRUE,
              database |-> SubSeq(credentials, 1, dot - 1),
              key |-> SubSeq(credentials, dot + 1, Len(credentials))]
    ELSE [found |-> FALSE, database |-> <<>>, key |-> <<>>]

\* DatabaseSchemaHandler::check_key is Ok(true), and check_admin_key
check_key(registry, database, key) ==
    /\ database \in DOMAIN registry
    /\ registry[database] # NoKey
    /\ registry[database] = key

check_admin_key(key) == key = AdminKey

\* connections.get_mut(&token) is Some
InRegistryAlways(registry, token) == TRUE
InRegistry(registry, token) == registry[token] # NoConnection

\* match (connection_type, req.remove(0)) of handle_client: the function
\* the request runs
DispatchByFlag(connection_type, flag) ==
    CASE flag = QUERY_FLAG -> "query"
      [] flag = CURSOR_FLAG -> "next"
      [] flag = NEW_DATABASE_FLAG -> "new_database"
      [] flag = DELETE_DATABASE_FLAG -> "delete_database"
      [] flag = GET_KEY_FLAG -> "get_key"
      [] flag = TERMINATE_FLAG -> "terminate"
      [] OTHER -> "invalid"

Dispatch(connection_type, flag) ==
    CASE connection_type = "Client" /\ flag = QUERY_FLAG -> "query"
      [] connection_type = "Client" /\ flag = CURSOR_FLAG -> "next"
      [] connection_type = "Admin" /\ flag = NEW_DATABASE_FLAG
             -> "new_database"
      [] connection_type = "Admin" /\ flag = DELETE_DATABASE_FLAG
             -> "delete_database"
      [] connection_type = "Admin" /\ flag = GET_KEY_FLAG -> "get_key"
      [] connection_type = "Admin" /\ flag = TERMINATE_FLAG -> "terminate"
      [] OTHER -> "invalid"

\* What the server leaves alone
ServerFrame ==
    UNCHANGED <<storeVars, fileVars, readVars, raceVars, tableVars, convVars,
                execVars,
                regVars, lockVars, insertVars>>

\* stream.write_all of a response that starts with the byte
Respond(token, byte) == sent' = [sent EXCEPT ![token] = Append(@, byte)]

\* The stream of a token is dropped by the server: the socket is closed
\* and the poll reports nothing for it any more
Dropped(token) ==
    /\ inbox' = [inbox EXCEPT ![token] = Stream("dropped", <<>>)]
    /\ ready' = ready \ {token}

\* The SERVER or ADMIN_SERVER arm of Server::start for one connection that
\* waits at the listener, in a batch of its own: the stream is registered
\* under the next token, readable and writable, and put into pending
Accept(connection_type) ==
    /\ reactor = "run"
    /\ events = {}
    /\ token_value \in Tokens
    /\ pending' = [pending EXCEPT ![token_value] = connection_type]
    /\ inbox' = [inbox EXCEPT ![token_value] = Stream("empty", <<>>)]
    /\ ready' = ready \cup {token_value}
    /\ token_value' = token_value + 1
    /\ UNCHANGED <<connections, work, events, reactor, workers, sent,
                   deregistered, ran, sends, databases, executors>>
    /\ ServerFrame

\* The peer of a connection sends a message
Send(token, message) ==
    /\ sends < MaxSends
    /\ inbox[token].state = "empty"
    /\ inbox' = [inbox EXCEPT ![token] = Stream("data", message)]
    /\ ready' = ready \cup {token}
    /\ sends' = sends + 1
    /\ UNCHANGED <<pending, connections, work, token_value, events, reactor,
                   workers, sent, deregistered, ran, databases, executors>>
    /\ ServerFrame

\* The peer of a connection closes it
Close(token) ==
    /\ inbox[token].state = "empty"
    /\ inbox' = [inbox EXCEPT ![token] = Stream("eof", <<>>)]
    /\ ready' = ready \cup {token}
    /\ UNCHANGED <<pending, connections, work, token_value, events, reactor,
                   workers, sent, deregistered, ran, sends, databases,
                   executors>>
    /\ ServerFrame

\* poll.poll(&mut events, None) returns with the events that are ready
Poll ==
    /\ reactor = "run"
    /\ events = {}
    /\ ready # {}
    /\ events' = ready
    /\ ready' = {}
    /\ UNCHANGED <<pending, connections, work, token_value, inbox, reactor,
                   workers, sent, deregistered, ran, sends, databases,
                   executors>>
    /\ ServerFrame

\* self.condvar.notify_one(): what the workers can be after it. One of
\* the workers that sleep in condvar.wait is woken, if there is one
NotifyNone(ws) == {ws}
NotifyOne(ws) ==
    IF \A w \in DOMAIN ws : ws[w].pc # "sleep" THEN {ws}
    ELSE {[ws EXCEPT ![w].pc = "wait"] : w \in {v \in DOMAIN ws :
                                                   ws[v].pc = "sleep"}}

\* n calls of notify_one under one lock of work
RECURSIVE NotifyTimes(_, _)
NotifyTimes(ws, n) ==
    IF n = 0 THEN {ws}
    ELSE UNION {NotifyTimes(woken, n - 1) : woken \in NotifyOne(ws)}

\* The TERMINATE arm: a poison pill is pushed and notify_one is called for
\* every worker, and the reactor goes on to join the workers
HandleTerminate ==
    /\ reactor = "run"
    /\ TERMINATE \in events
    /\ work' = work \o [i \in 1..num_thread |-> None]
    /\ workers' \in NotifyTimes(workers, num_thread)
    /\ reactor' = "join"
    /\ events' = events \ {TERMINATE}
    /\ UNCHANGED <<pending, connections, token_value, inbox, ready, sent,
                   deregistered, ran, sends, databases, executors>>
    /\ ServerFrame

\* The arm of a token in pending: the first message is read and checked.
\* A stream that is not ready goes back to pending and the break leaves
\* the loop over the events of the batch
Authenticate(token) ==
    LET connection_type == pending[token]
        stream == inbox[token]
        credentials == stream.data
        split == SplitOnce(credentials)
        Accepted(database) ==
            /\ Respond(token, 0)
            /\ connections' = [connections EXCEPT ![token] =
                                  [database |-> database,
                                   connection_type |-> connection_type]]
            /\ inbox' = [inbox EXCEPT ![token] = Stream("empty", <<>>)]
            /\ UNCHANGED <<ready, deregistered>>
        Rejected ==
            /\ deregistered' = deregistered \cup {token}
            /\ Respond(token, 1)
            /\ Dropped(token)
            /\ UNCHANGED connections
        Silent ==
            /\ Dropped(token)
            /\ UNCHANGED <<connections, sent, deregistered>>
    IN  /\ reactor = "run"
        /\ token \in events
        /\ connection_type # "none"
        /\ IF stream.state = "empty"
           THEN /\ events' = {}
                /\ UNCHANGED <<pending, connections, inbox, ready, sent,
                               deregistered>>
           ELSE /\ events' = events \ {token}
                /\ pending' = [pending EXCEPT ![token] = "none"]
                /\ IF ~IsUtf8(credentials) THEN Silent
                   ELSE IF connection_type = "Admin"
                   THEN IF check_admin_key(credentials)
                        THEN Accepted(<<>>) ELSE Rejected
                   ELSE IF ~split.found THEN Silent
                   ELSE IF check_key(databases, split.database, split.key)
                   THEN Accepted(split.database) ELSE Rejected
        /\ UNCHANGED <<work, token_value, reactor, workers, ran, sends,
                       databases, executors>>
        /\ ServerFrame

\* The arm of every other token: under the lock of work it is pushed for
\* the workers and notify_one is called
Forward(token) ==
    /\ reactor = "run"
    /\ token \in events
    /\ token # TERMINATE
    /\ pending[token] = "none"
    /\ work' = Append(work, token)
    /\ workers' \in NotifyOne(workers)
    /\ events' = events \ {token}
    /\ UNCHANGED <<pending, connections, token_value, inbox, ready, reactor,
                   sent, deregistered, ran, sends, databases, executors>>
    /\ ServerFrame

\* handle_client at `while work.is_empty()`: the worker holds the lock of
\* work, finds it empty and sleeps in condvar.wait, which releases the lock
Sleep(w) ==
    /\ workers[w].pc = "wait"
    /\ work = <<>>
    /\ workers' = [workers EXCEPT ![w].pc = "sleep"]
    /\ UNCHANGED <<pending, connections, work, token_value, inbox, ready,
                   events, reactor, sent, deregistered, ran, sends,
                   databases, executors>>
    /\ ServerFrame

\* condvar.wait returns without a notify_one, which a condition variable
\* may do; the worker tests work.is_empty() again
Wake(w) ==
    /\ workers[w].pc = "sleep"
    /\ workers' = [workers EXCEPT ![w].pc = "wait"]
    /\ UNCHANGED <<pending, connections, work, token_value, inbox, ready,
                   events, reactor, sent, deregistered, ran, sends,
                   databases, executors>>
    /\ ServerFrame

\* handle_client up to the read: the worker holds the lock of work, finds
\* it not empty and pops the top; it returns for a poison pill, goes on with the connection of a token of
\* the registry, and takes the next one for any other token
Pop(w) ==
    LET top == Last(work)
    IN  /\ workers[w].pc = "wait"
        /\ work # <<>>
        /\ work' = SubSeq(work, 1, Len(work) - 1)
        /\ workers' = [workers EXCEPT ![w] =
               IF top = None THEN [pc |-> "exited", token |-> None]
               ELSE IF InRegistry(connections, top)
               THEN [pc |-> "read", token |-> top,
                     database |-> connections[top].database,
                     connection_type |-> connections[top].connection_type]
               ELSE [pc |-> "wait", token |-> top]]
        /\ UNCHANGED <<pending, connections, token_value, inbox, ready,
                       events, reactor, sent, deregistered, ran, sends,
                       databases, executors>>
        /\ ServerFrame

\* The function a request runs: query and next answer with the status of
\* what the executor of the database returns, new_database, delete_database
\* and get_key work on the registry of databases, terminate wakes the
\* reactor
Run(fn, token, database, args) ==
    CASE fn = "query" ->
             /\ \E executed \in {"Some", "None", "Err"} :
                    Respond(token, IF database \in executors
                                   THEN StatusByte(executed) ELSE 2)
             /\ UNCHANGED <<ready, databases, executors>>
      [] fn = "next" ->
             /\ IF database \in executors
                THEN \E executed \in {"Some", "None", "Err"} :
                         Respond(token, StatusByte(executed))
                ELSE UNCHANGED sent
             /\ UNCHANGED <<ready, databases, executors>>
      [] fn = "new_database" ->
             /\ Respond(token, 0)
             /\ IF args \in DOMAIN databases /\ databases[args] = NoKey
                THEN /\ \E key \in Keys :
                            databases' = [databases EXCEPT ![args] = key]
                     /\ executors' = executors \cup {args}
                ELSE UNCHANGED <<databases, executors>>
             /\ UNCHANGED ready
      [] fn = "delete_database" ->
             /\ IF args \in DOMAIN databases /\ databases[args] # NoKey
                THEN /\ databases' = [databases EXCEPT ![args] = NoKey]
                     /\ Respond(token, 1)
                ELSE /\ Respond(token, 0)
                     /\ UNCHANGED databases
             /\ UNCHANGED <<ready, executors>>
      [] fn = "get_key" ->
             /\ Respond(token, IF args \in DOMAIN databases
                                  /\ databases[args] # NoKey
                               THEN 0 ELSE 1)
             /\ UNCHANGED <<ready, databases, executors>>
      [] fn = "terminate" ->
             /\ ready' = ready \cup {TERMINATE}
             /\ UNCHANGED <<sent, databases, executors>>
      [] OTHER -> UNCHANGED <<ready, sent, databases, executors>>

\* handle_client from the read on: a stream that is not ready is left
\* alone, a closed one is removed from the registry, and a request is
\* dispatched by the type of its connection and its first byte
Read(w) ==
    LET c == workers[w]
        stream == inbox[c.token]
        flag == Head(stream.data)
        fn == Dispatch(c.connection_type, flag)
    IN  /\ c.pc = "read"
        /\ workers' = [workers EXCEPT ![w] = Waiting]
        /\ IF stream.state = "data"
           THEN /\ inbox' = [inbox EXCEPT ![c.token] = Stream("empty", <<>>)]
                /\ ran' = [fn |-> fn, token |-> c.token, flag |-> flag,
                           connection_type |-> c.connection_type,
                           authorized |-> InRegistry(connections, c.token)]
                /\ Run(fn, c.token, c.database, Tail(stream.data))
                /\ UNCHANGED connections
           ELSE /\ connections' =
                       IF stream.state = "eof"
                       THEN [connections EXCEPT ![c.token] = NoConnection]
                       ELSE connections
                /\ UNCHANGED <<inbox, ready, sent, ran, databases,
                               executors>>
        /\ UNCHANGED <<pending, work, token_value, events, reactor,
                       deregistered, sends>>
        /\ ServerFrame

\* The reactor has joined every worker: std::process::exit(0)
Join ==
    /\ reactor = "join"
    /\ \A w \in 1..num_thread : workers[w].pc = "exited"
    /\ reactor' = "exited"
    /\ UNCHANGED <<pending, connections, work, token_value, inbox, ready,
                   events, workers, sent, deregistered, ran, sends,
                   databases, executors>>
    /\ ServerFrame

\* Peers connect, send, and close; the reactor and the workers run
NextServer ==
    \/ \E connection_type \in {"Client", "Admin"} : Accept(connection_type)
    \/ \E token \in Tokens, message \in Messages : Send(token, message)
    \/ \E token \in Tokens : Close(token)
    \/ Poll
    \/ HandleTerminate
    \/ \E token \in Tokens : Authenticate(token)
    \/ \E token \in Tokens : Forward(token)
    \/ \E w \in 1..num_thread : Sleep(w)
    \/ \E w \in 1..num_thread : Wake(w)
    \/ \E w \in 1..num_thread : Pop(w)
    \/ \E w \in 1..num_thread : Read(w)
    \/ Join

SpecServer == Init /\ [][NextServer]_vars

\* The reactor and the workers are threads that the scheduler runs: each
\* of their steps that stays possible is taken. Peers need not act
SpecServerFair ==
    /\ SpecServer
    /\ WF_vars(Poll)
    /\ WF_vars(HandleTerminate)
    /\ WF_vars(Join)
    /\ \A token \in Tokens :
           WF_vars(Authenticate(token)) /\ WF_vars(Forward(token))
    /\ \A w \in 1..num_thread :
           WF_vars(Sleep(w)) /\ WF_vars(Pop(w)) /\ WF_vars(Read(w))

\* The sessions of clients: what a client sends is the key of its database
\* or a query for it
SessionMessages == {<<100, 46, 120>>, <<QUERY_FLAG, 100>>}

\* The peer of a client connection sends a message of a session
Request(token, message) ==
    /\ sends < SessionSends
    /\ inbox[token].state = "empty"
    /\ inbox' = [inbox EXCEPT ![token] = Stream("data", message)]
    /\ ready' = ready \cup {token}
    /\ sends' = sends + 1
    /\ UNCHANGED <<pending, connections, work, token_value, events, reactor,
                   workers, sent, deregistered, ran, databases, executors>>
    /\ ServerFrame

\* The server with clients only: nobody connects to the admin port, so no
\* database is made or deleted and no terminate is issued
NextSession ==
    \/ Accept("Client")
    \/ \E token \in Tokens, message \in SessionMessages :
           Request(token, message)
    \/ \E token \in Tokens : Close(token)
    \/ Poll
    \/ \E token \in Tokens : Authenticate(token)
    \/ \E token \in Tokens : Forward(token)
    \/ \E w \in 1..num_thread : Sleep(w)
    \/ \E w \in 1..num_thread : Wake(w)
    \/ \E w \in 1..num_thread : Pop(w)
    \/ \E w \in 1..num_thread : Read(w)

SpecSession == Init /\ [][NextSession]_vars

SpecSessionFair ==
    /\ SpecSession
    /\ WF_vars(Poll)
    /\ \A token \in Tokens :
           WF_vars(Authenticate(token)) /\ WF_vars(Forward(token))
    /\ \A w \in 1..num_thread :
           WF_vars(Sleep(w)) /\ WF_vars(Pop(w)) /\ WF_vars(Read(w))

\* ---------------------------------------------------------------------
\* DatabaseSchemaHandler: the registry of databases, a table of rows
\* (database_id, database_key) and a map behind a mutex, called by
\* several workers at once
\* ---------------------------------------------------------------------

RegistryFrame ==
    UNCHANGED <<storeVars, fileVars, readVars, raceVars, tableVars, convVars,
                execVars, pending, connections, work, token_value, inbox,
                ready, events, reactor, workers, sent, deregistered, ran,
                sends, executors, lockVars, insertVars>>

\* table_handler.delete_row(database_id == database): the rows that stay
WithoutDatabase(rows, database) ==
    SelectSeq(rows, LAMBDA row : row[1] # database)

\* add_database up to the end of its first lock of the map: the name is
\* looked up, and the call returns AlreadyExists if it is there
AddCheck(t, database, key) ==
    /\ dcall[t].pc = "idle"
    /\ dcount < MaxRegistryCalls
    /\ dcount' = dcount + 1
    /\ dcall' = [dcall EXCEPT ![t] =
                    IF databases[database] # NoKey THEN [pc |-> "idle"]
                    ELSE [pc |-> "add_insert", database |-> database,
                          key |-> key]]
    /\ UNCHANGED <<databases, database_rows>>
    /\ RegistryFrame

\* add_database: table_handler.insert_row(row), outside the lock
AddInsert(t) ==
    /\ dcall[t].pc = "add_insert"
    /\ database_rows' =
           Append(database_rows, <<dcall[t].database, dcall[t].key>>)
    /\ dcall' = [dcall EXCEPT ![t].pc = "add_map"]
    /\ UNCHANGED <<databases, dcount>>
    /\ RegistryFrame

\* add_database: the second lock of the map, databases.insert
AddMap(t) ==
    /\ dcall[t].pc = "add_map"
    /\ databases' = [databases EXCEPT ![dcall[t].database] = dcall[t].key]
    /\ dcall' = [dcall EXCEPT ![t] = [pc |-> "idle"]]
    /\ UNCHANGED <<database_rows, dcount>>
    /\ RegistryFrame

\* remove_database up to the end of its lock of the map: databases.remove,
\* and the call returns NotFound if the name was not there
RemoveMap(t, database) ==
    /\ dcall[t].pc = "idle"
    /\ dcount < MaxRegistryCalls
    /\ dcount' = dcount + 1
    /\ IF databases[database] = NoKey
       THEN UNCHANGED <<databases, dcall>>
       ELSE /\ databases' = [databases EXCEPT ![database] = NoKey]
            /\ dcall' = [dcall EXCEPT ![t] = [pc |-> "remove_delete",
                                              database |-> database]]
    /\ UNCHANGED database_rows
    /\ RegistryFrame

\* remove_database: table_handler.delete_row(predicate), outside the lock
RemoveDelete(t) ==
    /\ dcall[t].pc = "remove_delete"
    /\ database_rows' = WithoutDatabase(database_rows, dcall[t].database)
    /\ dcall' = [dcall EXCEPT ![t] = [pc |-> "idle"]]
    /\ UNCHANGED <<databases, dcount>>
    /\ RegistryFrame

NextRegistry ==
    \/ \E t \in 1..RegistryThreads, database \in DatabaseNames,
          key \in Keys : AddCheck(t, database, key)
    \/ \E t \in 1..RegistryThreads : AddInsert(t)
    \/ \E t \in 1..RegistryThreads : AddMap(t)
    \/ \E t \in 1..RegistryThreads, database \in DatabaseNames :
           RemoveMap(t, database)
    \/ \E t \in 1..RegistryThreads : RemoveDelete(t)

SpecRegistry == Init /\ [][NextRegistry]_vars

\* ---------------------------------------------------------------------
\* The locks of the Executor: tables, a RwLock, and cursors, a Mutex
\* ---------------------------------------------------------------------

LockFrame ==
    UNCHANGED <<storeVars, fileVars, readVars, raceVars, tableVars, convVars,
                execVars, srvVars, regVars, insertVars>>

Take(lock) == [do |-> "acquire", lock |-> lock]
Drop(lock) == [do |-> "release", lock |-> lock]

\* The lock and unlock calls of an operation of the Executor other than
\* next, in the order of its code. create: tables.write() for the check
\* and again for the push; drop: tables.read() for the check,
\* tables.write() for the retain; insert, delete and a select that finds
\* no row: tables.read(); a select that finds a row: cursors.lock()
\* inside tables.read(), once more if the hash is taken
CommandLockSteps(op) ==
    CASE op = "create" ->
             <<Take("write"), Drop("write"), Take("write"), Drop("write")>>
      [] op = "drop" ->
             <<Take("read"), Drop("read"), Take("write"), Drop("write")>>
      [] op \in {"insert", "delete", "select_none"} ->
             <<Take("read"), Drop("read")>>
      [] op = "select" ->
             <<Take("read"), Take("cursors"), Drop("cursors"), Drop("read")>>
      [] op = "select_again" ->
             <<Take("read"), Take("cursors"), Drop("cursors"),
               Take("cursors"), Drop("cursors"), Drop("read")>>

\* Executor::next with its two locks taken in the other order
LockStepsCursorsFirst(op) ==
    IF op = "next"
    THEN <<Take("cursors"), Take("read"), Drop("read"), Drop("cursors")>>
    ELSE CommandLockSteps(op)

\* The lock and unlock calls of an operation of the Executor;
\* next: match (self.tables.read(), self.cursors.lock())
LockSteps(op) ==
    IF op = "next"
    THEN <<Take("read"), Take("cursors"), Drop("read"), Drop("cursors")>>
    ELSE CommandLockSteps(op)

LockOperations ==
    {"create", "drop", "insert", "delete", "select_none", "select",
     "select_again", "next"}

\* The lock steps of the operation thread t is in
StepsOf(t) == LockSteps(lcall[t].op)

\* Thread t is at the acquisition of a lock
WaitsFor(t, lock) ==
    /\ lcall[t].op # "idle"
    /\ StepsOf(t)[lcall[t].pc] = Take(lock)

HoldsLock(t, lock) == lock \in Range(lheld[t])

\* The lock can be given to thread t: a RwLock is given for reading
\* while nobody writes and for writing while nobody holds it, a Mutex
\* while nobody holds it; neither is given twice to one thread
Free(t, lock) ==
    CASE lock = "read" ->
             \A other \in 1..LockThreads : ~HoldsLock(other, "write")
      [] lock = "write" ->
             \A other \in 1..LockThreads :
                 ~HoldsLock(other, "write") /\ ~HoldsLock(other, "read")
      [] lock = "cursors" ->
             \A other \in 1..LockThreads : ~HoldsLock(other, "cursors")

\* A thread starts an operation of the Executor
LockCall(t, op) ==
    /\ lcall[t].op = "idle"
    /\ lcount < MaxLockCalls
    /\ lcount' = lcount + 1
    /\ lcall' = [lcall EXCEPT ![t] = [op |-> op, pc |-> 1]]
    /\ UNCHANGED lheld
    /\ LockFrame

\* A thread takes its next lock step, and returns after the last
LockStep(t) ==
    LET steps == StepsOf(t)
        step == steps[lcall[t].pc]
        Other(lock) == lock # step.lock
    IN  /\ lcall[t].op # "idle"
        /\ IF step.do = "acquire"
           THEN /\ Free(t, step.lock)
                /\ lheld' = [lheld EXCEPT ![t] = Append(@, step.lock)]
           ELSE lheld' = [lheld EXCEPT ![t] = SelectSeq(@, Other)]
        /\ lcall' = [lcall EXCEPT ![t] =
                        IF lcall[t].pc = Len(steps)
                        THEN [op |-> "idle", pc |-> 0]
                        ELSE [op |-> lcall[t].op, pc |-> lcall[t].pc + 1]]
        /\ UNCHANGED lcount
        /\ LockFrame

NextLocks ==
    \/ \E t \in 1..LockThreads, op \in LockOperations : LockCall(t, op)
    \/ \E t \in 1..LockThreads : LockStep(t)

SpecLocks == Init /\ [][NextLocks]_vars

\* ================================================================ claims
Distinct(seq) == \A i, j \in 1..Len(seq) : i # j => seq[i] # seq[j]
AllocStep == ret'.op = "alloc_page" /\ ret'.status = "ok"
\* The header pages an alloc_page step chained
Chained == HeaderPageIds(TheFile)' \ HeaderPageIds(TheFile)

\* C1: from an empty store, the ids returned by consecutive alloc_page calls
\* are pairwise distinct, and none is 0 or the id of a header page, also
\* after a new header page has been chained.
C1_AllocDistinct ==
    onlyAlloc =>
        /\ Distinct(allocated)
        /\ \A i \in 1..Len(allocated) :
              allocated[i] # 0 /\ allocated[i] \notin HeaderPageIds(TheFile)

C1_Witness ==
    /\ onlyAlloc
    /\ Len(allocated) >= SlotsPerPage
    /\ Cardinality(HeaderPageIds(TheFile)) >= 2

\* C2: no page id is in the free list and registered in the header chain at
\* the same time, for a caller that deallocates with headers it obtained
\* from alloc_page.
C2_FreeRegisteredDisjoint ==
    FreeIds(TheFile) \cap RegisteredIds(TheFile) = {}

C4_DeallocAllocRestores ==
    [][(/\ ret.op = "alloc_page" /\ ret.status = "ok"
        /\ ret'.op = "dealloc_page" /\ ret'.arg = ret.header)
       => (ret'.status = "ok" /\ StoreView(TheFile)' = pre.view)]_vars

\* C5: every page id below the allocation high-water mark is in exactly one
\* of the free list, the registered entries and the header pages of the chain.
C5_Partition ==
    \A id \in 0..(HighWater(TheFile) - 1) :
        Cardinality({k \in 1..3 :
            \/ k = 1 /\ id \in FreeIds(TheFile)
            \/ k = 2 /\ id \in RegisteredIds(TheFile)
            \/ k = 3 /\ id \in HeaderPageIds(TheFile)}) = 1

C7_IterateAll ==
    (ret.op = "iterate_pages" /\ ret.size = 0) =>
        LET ids == [i \in 1..Len(ret.visited) |-> ret.visited[i].header.id]
        IN  /\ ret.status = "ok"
            /\ Distinct(ids)
            /\ Range(ids) = live
            /\ ids = [i \in 1..Len(Registered(TheFile)) |->
                        Registered(TheFile)[i].id]
            /\ Range(ids) \cap (FreeIds(TheFile) \cup HeaderPageIds(TheFile)) = {}
            /\ \A i \in 1..Len(ids) : ret.visited[i].page = pages[ids[i]]

C7_Witness ==
    /\ ret.op = "iterate_pages" /\ ret.size = 0
    /\ Len(ret.visited) >= SlotsPerPage
    /\ \E i, j \in 1..Len(ret.visited) :
          ret.visited[i].header.header_page_id
              # ret.visited[j].header.header_page_id

\* C8: write_page fails and leaves the file unchanged when the data is longer
\* than a page or the entry at the header's position does not carry the
\* header's id; otherwise it writes the data to the page and sets the
\* entry's used to the given size, and nothing else changes.
C8_WritePage ==
    [][ret'.op = "write_page" =>
         LET h == ret'.arg
             slot == EntryWords(pages[h.header_page_id], h.header_offset)
             rejected == Len(ret'.data) * WordSize > PAGE_SIZE \/ slot[1] # h.id
             entry == h.header_offset \div WordSize
         IN  IF rejected
             THEN ret'.status = "err" /\ pages' = pages /\ head' = head
             ELSE /\ ret'.status = "ok"
                  /\ head' = head
                  /\ \A w \in 1..Len(ret'.data) : pages'[h.id][w] = ret'.data[w]
                  /\ pages'[h.header_page_id][entry + 3] = ret'.size
                  /\ \A id \in PageIds, w \in 1..PageWords :
                        pages'[id][w] # pages[id][w] =>
                            \/ id = h.id /\ w <= Len(ret'.data)
                            \/ id = h.header_page_id /\ w = entry + 3]_vars

C8_Witness ==
    /\ ret.op = "write_page" /\ ret.status = "err"
    /\ Len(ret.data) * WordSize <= PAGE_SIZE
    /\ ret.arg.id \in live

\* The header identifies a registered page: the chain has an entry with its
\* id at its recorded position
Identifies(h) ==
    \E i \in 1..Len(HeadersFrom(TheFile, 0, 0, HeaderSize, ChainFuel)) :
        LET e == HeadersFrom(TheFile, 0, 0, HeaderSize, ChainFuel)[i]
        IN  /\ e.id = h.id
            /\ e.header_page_id = h.header_page_id
            /\ e.header_offset = h.header_offset

\* C9: dealloc_page with a header that does not identify a registered page
\* returns an error and leaves the file unchanged.
C9_InvalidDeallocRejected ==
    [][(ret'.op = "dealloc_page" /\ ~Identifies(ret'.arg)) =>
          (ret'.status = "err" /\ head' = head /\ pages' = pages)]_vars

\* The bytes a write_at call covers
ByteRange(call) == call[1]..(call[1] + call[2] - 1)
\* Thread t's range is in accesses: inserted and not yet removed
InFlight(t) == wpc[t] = "pwrite"
\* The file after the writes of the threads of order, applied one after the
\* other
RECURSIVE Serial(_, _)
Serial(order, file) ==
    IF order = <<>> THEN file
    ELSE Serial(Tail(order),
                [b \in DOMAIN file |->
                    IF b \in ByteRange(wcall[Head(order)]) THEN Head(order)
                    ELSE file[b]])
Orders == {o \in [1..Writers -> Threads] : \A i, j \in 1..Writers :
                                               i # j => o[i] # o[j]}

\* C10: no two write_at calls with overlapping byte ranges are in flight at
\* the same time, so that when all writes have finished the file is what the
\* writes give in one of their serial orders; and a write waits only while a
\* write with an overlapping range is in flight.
C10_WritesSerialized ==
    /\ [](\A t, u \in Threads :
            (t # u /\ InFlight(t) /\ InFlight(u)) =>
                ByteRange(wcall[t]) \cap ByteRange(wcall[u]) = {})
    /\ []((\A t \in Threads : wpc[t] = "done") =>
            \E o \in Orders : fileBytes = Serial(o, [b \in DOMAIN fileBytes |-> 0]))
    /\ [][\A t \in Threads :
            (wpc[t] = "lock" /\ wpc'[t] = "wait") =>
                \E u \in Threads \ {t} :
                    /\ InFlight(u)
                    /\ ByteRange(wcall[t]) \cap ByteRange(wcall[u]) # {}]_vars

C10_Witness ==
    /\ \A t \in Threads : wpc[t] = "done"
    /\ ByteRange(wcall[1]) \cap ByteRange(wcall[2]) # {}
    /\ wcall[1] # wcall[2]
    /\ \E t \in Threads : \A b \in ByteRange(wcall[t]) : fileBytes[b] = t

\* C11: the buffer a read_at returns holds, for the bytes in the range of an
\* overlapping write_at, either the bytes of before that write or the bytes
\* it wrote, never a mixture (stated for a write that is the only one so far,
\* so that the bytes of before are the zero bytes of the new file).
C11_ReadNotTorn ==
    \A t \in Threads :
        (/\ rpc = "done"
         /\ wpc[t] # "idle"
         /\ \A u \in Threads \ {t} : wpc[u] = "idle")
        => LET both == ByteRange(rcall) \cap ByteRange(wcall[t])
               Got(b) == buffer[b - rcall[1] + 1]
           IN  \/ \A b \in both : Got(b) = t
               \/ \A b \in both : Got(b) = 0

\* C12: the ids that alloc_page calls of concurrent threads have returned
\* are pairwise distinct, and each is registered in the header chain once
\* no call is in progress.
C12_ConcurrentAllocDistinct ==
    \A t, u \in 1..AllocThreads :
        (/\ t # u
         /\ callers[t].pc = "idle" /\ callers[u].pc = "idle"
         /\ callers[t].returned # None /\ callers[u].returned # None)
        => /\ callers[t].returned # callers[u].returned
           /\ callers[t].returned \in RegisteredIds(TheFile)
           /\ callers[u].returned \in RegisteredIds(TheFile)

\* The values of a sequence of decoded rows
RowValues(rs) == [i \in 1..Len(rs) |-> rs[i].val]

\* C13: when next returns no row, or select_row finds none, the scan has
\* yielded exactly the rows of the table that satisfy its predicate (all
\* rows without a predicate), each once, in page-chain and slot order.
C13_ScanYieldsMatching ==
    (/\ tret.op \in {"select_row", "next"}
     /\ tret.status = "none")
    => yielded = RowValues(Matching(TableRows(TheFile, TableCols), TableCols,
                                    tret.predicate))

\* A scan over rows in three data pages, the third registered in the second
\* header page, has ended after yielding rows and skipping others.
C13_Witness ==
    /\ tret.op = "next"
    /\ tret.status = "none"
    /\ Len(AllHeaders(TheFile, GetFirst)) >= 3
    /\ Len(yielded) >= 3
    /\ Len(yielded) < Len(TableRows(TheFile, TableCols))
    /\ Last(yielded) = Last(TableRows(TheFile, TableCols)).val

\* C14: a delete_row that returns success leaves exactly the rows that did
\* not satisfy the predicate, with their content and in their order.
C14_DeleteRemovesMatching ==
    (/\ tret.op = "delete_row"
     /\ tret.status = "ok")
    => TableRows(TheFile, TableCols)
           = NotMatching(tret.before, TableCols, tret.predicate)

\* A delete_row has removed two adjacent rows in the first slots of one
\* page and the row in the last slot of another, and kept a row between.
C14_Witness ==
    /\ tret.op = "delete_row"
    /\ tret.status = "ok"
    /\ Len(tret.before) >= 4
    /\ tret.before[1] \notin Range(TableRows(TheFile, TableCols))
    /\ tret.before[2] \notin Range(TableRows(TheFile, TableCols))
    /\ Last(tret.before) \notin Range(TableRows(TheFile, TableCols))
    /\ TableRows(TheFile, TableCols) # <<>>
    /\ Len(AllHeaders(TheFile, GetFirst)) >= 2

\* C15: after delete_row has deleted every row of a table that held rows,
\* the next alloc_page of the page store returns the id of one of the
\* table's data pages (taken from the free list) instead of a fresh id.
C15_EmptiedPagesReused ==
    (/\ tret.op = "alloc_page"
     /\ tret.status = "ok")
    => tret.row.id \in Range(tret.before)

\* The data page of header h has been written by the table store
Written(f, h) == ToString(read_page(f, h)[1]) # "0"

\* Length of the slot directory plus length of the row heap of a data page
DirectoryAndHeap(page) ==
    OffsetSize + OffsetAt(page, 0) * OffsetSize
    + (IF OffsetAt(page, 0) = 0 THEN 0
       ELSE OffsetAt(page, OffsetAt(page, 0) * OffsetSize))

\* C16: the used value recorded for every data page that holds or has held
\* rows is the length of its slot directory plus the length of its row
\* heap, so that find_fitting_page(row_size + slot_size) is an exact fit
\* test.
C16_UsedIsDirectoryAndHeap ==
    \A h \in Range(AllHeaders(TheFile, GetFirst)) :
        Written(TheFile, h)
        => h.used = DirectoryAndHeap(PageBytes(read_page(TheFile, h)))

\* C17: insert_row of a row that does not fit into an empty page together
\* with the slot count and its slot returns the invalid-input error, and
\* the rows of the table are those of before.
C17_OversizedRejected ==
    (/\ tret.op = "insert_row"
     /\ Len(RowToBytes(tret.row)) + 2 * OffsetSize > PAGE_SIZE)
    => /\ tret.status = "invalid_input"
       /\ TableRows(TheFile, TableCols) = tret.before

\* The value a call of cols_to_row gives for column k of the table, parsed
\* by the column's type
GivenFor(col_data, col_names, col_values, k) ==
    LET value == col_values[CHOOSE i \in 1..Len(col_names) :
                                col_names[i] = col_data[k].name]
    IN  IF col_data[k].type = "Text" THEN Ok(Text(value))
        ELSE ParseNumber(value)

\* C18: cols_to_row returns a row exactly when the names, if given, are a
\* permutation of all columns of the table, there is one value per column
\* and every value parses by the type of its column; the row then holds
\* the values in the order of the table's columns.
C18_ColsToRow ==
    conv.op = "cols_to_row"
    => LET col_names == IF conv.col_names = NoNames
                        THEN [i \in 1..Len(TestCols) |-> TestCols[i].name]
                        ELSE conv.col_names
           Given(k) == GivenFor(TestCols, col_names, conv.col_values, k)
           complete ==
               /\ Len(col_names) = Len(TestCols)
               /\ Len(conv.col_values) = Len(TestCols)
               /\ \A k \in 1..Len(TestCols) :
                      \E i \in 1..Len(col_names) : col_names[i] = TestCols[k].name
           good == complete /\ \A k \in 1..Len(TestCols) : Given(k).status = "ok"
       IN  /\ conv.result.status = "ok" <=> good
           /\ good => conv.result.val = [k \in 1..Len(TestCols) |-> Given(k).val]

\* C19: decoding the serialized bytes of a row with the row's column types
\* gives back the row, whatever the row's total length
C19_RowCodecRoundTrip ==
    conv.op = "row_codec" => conv.result = Ok(conv.row)

\* The sequence seq without its k-th element
Without(seq, k) ==
    [j \in 1..(Len(seq) - 1) |-> seq[IF j < k THEN j ELSE j + 1]]

\* C20: add_col_data(table, (type, name)) fails with already-exists exactly
\* when a row of the schema table with table_id = table has col_name =
\* name; otherwise it inserts the row (table, name, type, number of the
\* rows the table had), and get_col_data(table) then returns the columns
\* of before followed by the new one.
C20_AddColData ==
    tret.op = "add_col_data"
    => LET table == tret.table
           col == tret.col
           existing == RowValues(tret.before)
           after == TableRows(TheFile, SchemaCols)
           mine == {i \in 1..Len(existing) : existing[i][1] = Text(table)}
           exists == \E i \in mine : existing[i][2] = Text(col.name)
           row == <<Text(table), Text(col.name),
                    Number(TypeToNumber(col.type)), Number(Cardinality(mine))>>
       IN  /\ tret.status = "already_exists" <=> exists
           /\ ~exists =>
                  /\ tret.status = "ok"
                  /\ \E k \in 1..Len(after) :
                         /\ after[k] = Ok(row)
                         /\ RowValues(Without(after, k)) = existing
                  /\ get_col_data(TheFile, table) =
                         Ok(Append(tret.cols.val, col))

\* No command of the executor is in progress
Quiet == \A t \in 1..ExecThreads : ecall[t].pc = "idle"

\* The rows of the schema table that belong to a table
CatalogOf(table_name) ==
    LET Mine(r) == r.status = "ok" /\ r.val[1] = Text(table_name)
    IN  RowValues(SelectSeq(TableRows(schema, SchemaCols), Mine))

\* C21: between commands, every table of the table map with k columns has
\* exactly k rows in the schema table, with the col_ids 0..k-1 and k
\* different col_names, and every row of the schema table belongs to a
\* table of the map.
C21_CatalogMatchesTables ==
    Quiet =>
        /\ \A i \in 1..Len(tables) :
               LET rows == CatalogOf(tables[i].name)
                   k == Len(tables[i].col_data)
               IN  /\ Len(rows) = k
                   /\ {rows[j][4].val : j \in 1..Len(rows)} = 0..(k - 1)
                   /\ Cardinality({rows[j][2] : j \in 1..Len(rows)}) = k
        /\ \A name \in TableNames :
               CatalogOf(name) # <<>> => TableIndex(tables, name) # 0
        /\ \A r \in Range(TableRows(schema, SchemaCols)) : r.status = "ok"

\* C22: the table map never holds two entries with the same name, and a
\* CREATE that finds a table of its name in the map, when it looks the
\* name up or when it pushes its handler, fails.
C22_CreateOnce ==
    /\ \A i, j \in 1..Len(tables) : i # j => tables[i].name # tables[j].name
    /\ (eret.op = "create" /\ eret.known) => eret.status = "err"

\* The commands of the executor that name their table
TableCommands == {"drop", "insert", "select", "delete", "next"}

\* A CREATE that has pushed its handler while no table of its name was in
\* the map, with the columns the table of that name had when it was dropped
Recreated ==
    /\ eret.op = "create"
    /\ ~eret.known
    /\ Len(eret.args.col_types) = Len(eret.args.col_names)
    /\ CombineCols(eret.args.col_types, eret.args.col_names)
           = Ok(eret.dropped)

\* C23: after a successful DROP, until the next command starts, the table
\* is in neither the table map nor the schema table and its file is gone;
\* a command on a table that is not
\* in the map fails; and a CREATE of a dropped table with the columns it
\* had succeeds, on an empty file and with the same conversion of values
\* to rows as the dropped table.
C23_DropThenCreate ==
    /\ (Quiet /\ eret.op = "drop" /\ eret.status = "ok") =>
           /\ TableIndex(tables, eret.table_name) = 0
           /\ CatalogOf(eret.table_name) = <<>>
           /\ dir[eret.table_name] = NoFile
    /\ (eret.op \in TableCommands /\ ~eret.known) => eret.status = "err"
    /\ Recreated =>
           /\ eret.status = "ok"
           /\ dir[eret.table_name] = NewFile
           /\ \A col_values \in InsertValues :
                  cols_to_row(tables[TableIndex(tables, eret.table_name)]
                                  .col_data, NoNames, <<col_values>>)
                      = cols_to_row(eret.dropped, NoNames, <<col_values>>)

\* The names of the tables of a table map
NamesOf(tbls) == {tbls[i].name : i \in 1..Len(tbls)}

\* C24: a new executor over the directory of an earlier one has the table
\* names of the earlier one in its map, each with the columns it had in the
\* earlier one, and a SELECT on each table finds the row it found before.
C24_NewReproduces ==
    (Quiet /\ eret.op = "new") =>
        /\ NamesOf(tables) = NamesOf(eret.tables)
        /\ \A i \in 1..Len(tables) :
               LET name == tables[i].name
                   old == eret.tables[TableIndex(eret.tables, name)]
               IN  /\ tables[i].col_data = old.col_data
                   /\ select_row(dir[name], tables[i].col_data, NoPredicate)
                          = select_row(eret.dir[name], old.col_data,
                                       NoPredicate)

\* The handles that are keys of a cursor registry
KeysOf(registry) == {hash \in Handles : registry[hash] # NoEntry}

\* A step keeps the entries of the cursor registry, but for the position
\* of the cursor that a next on its handle advances
KeepsEntries ==
    \A hash \in KeysOf(cursors) :
        /\ hash \in KeysOf(cursors')
        /\ cursors'[hash].table_name = cursors[hash].table_name
        /\ cursors'[hash] # cursors[hash] =>
               /\ eret'.op = "next"
               /\ eret'.status = "found"
               /\ eret'.hash = hash

\* A step adds at most the handle that a SELECT returns with its row, and
\* that handle was not a key before the step
RegistersFresh ==
    \A hash \in KeysOf(cursors') \ KeysOf(cursors) :
        /\ eret'.op = "select"
        /\ eret'.status = "found"
        /\ eret'.hash = hash
        /\ cursors'[hash].table_name = eret'.table_name
        /\ KeysOf(cursors') = KeysOf(cursors) \cup {hash}

\* C25: no step of a command removes an entry of the cursor registry or
\* changes the table of one, only next changes the cursor of one; a handle
\* is added only by a SELECT that returns a row, and it was not a key when
\* it was added; a SELECT that ends without a row leaves the registry as
\* it was.
C25_HandlesNotReused ==
    [][/\ KeepsEntries
       /\ RegistersFresh
       /\ (eret'.op = "select" /\ eret'.status # "found"
               /\ ecount' # ecount) => cursors' = cursors
       /\ (eret'.op = "select" /\ eret'.status = "found" /\ eret' # eret)
              => eret'.hash \in KeysOf(cursors') \ KeysOf(cursors)]_vars

\* A SELECT has found a row and is about to register its cursor while
\* the other handle is a key of the registry, registered by a SELECT that
\* returned its row
C25_Witness ==
    /\ \E t \in 1..ExecThreads : ecall[t].pc = "select_register"
    /\ eret.op = "select"
    /\ eret.status = "found"
    /\ KeysOf(cursors) = {eret.hash}

\* C26: the response to a command that met an error has the status byte 2;
\* an INSERT whose insert_row returned an error is such a command.
C26_ErrorsReachClient ==
    /\ (eret.op # "none" /\ eret.status = "err") =>
           StatusByte(ExecuteResult(eret)) = 2
    /\ (eret.op = "insert" /\ eret.stored \notin {"ok", "none"}) =>
           StatusByte(ExecuteResult(eret)) = 2

\* A token has an entry in a registry of connections
HasEntry(registry, token) == registry[token].connection_type # "none"

\* The first message of a token in pending is in its stream and carries the
\* admin key on the admin port, or a database, a '.' and the key of that
\* database on the client port
ValidFirst(token) ==
    /\ inbox[token].state = "data"
    /\ \/ /\ pending[token] = "Admin"
          /\ inbox[token].data = AdminKey
       \/ /\ pending[token] = "Client"
          /\ \E database \in DatabaseNames :
                 /\ databases[database] # NoKey
                 /\ inbox[token].data
                        = database \o <<46>> \o databases[database]

\* A token enters the registry only in a step that reads a valid first
\* message of it, with the type of its port, and keeps its entry after
EntersAuthenticated ==
    \A token \in Tokens :
        /\ (~HasEntry(connections, token)
                /\ HasEntry(connections', token)) =>
               /\ ValidFirst(token)
               /\ connections'[token].connection_type = pending[token]
               /\ pending'[token] = "none"
        /\ (HasEntry(connections, token)
                /\ HasEntry(connections', token)) =>
               connections'[token] = connections[token]

\* A worker goes on to read only for a token of the registry, with the
\* entry of the token, and a pop of any other token changes nothing but
\* work and the token the worker has skipped
ReadsAuthenticated ==
    \A w \in 1..num_thread :
        /\ (workers[w].pc = "wait" /\ workers'[w].pc = "read") =>
               /\ workers'[w].token = Last(work)
               /\ HasEntry(connections, workers'[w].token)
               /\ workers'[w].connection_type
                      = connections[workers'[w].token].connection_type
               /\ workers'[w].database
                      = connections[workers'[w].token].database
        /\ (workers[w].pc = "wait" /\ workers'[w] # workers[w]
                /\ work # <<>>
                /\ Last(work) # None
                /\ ~HasEntry(connections, Last(work))) =>
               /\ workers'[w] = [pc |-> "wait", token |-> Last(work)]
               /\ UNCHANGED <<connections, inbox, sent, ran, databases,
                              executors, ready>>

\* A request is dispatched by a worker that reads for its token
DispatchesAuthenticated ==
    ran' # ran =>
        \E w \in 1..num_thread :
            /\ workers[w].pc = "read"
            /\ workers[w].token = ran'.token
            /\ workers[w].connection_type = ran'.connection_type

\* C27: a token enters the registry of authenticated connections only
\* when its first message carried the admin key (admin port) or a database
\* and its key (client port); a worker reads and dispatches only for a
\* token it found in the registry, and skips every other token.
C27_OnlyAuthenticated ==
    [][EntersAuthenticated /\ ReadsAuthenticated
           /\ DispatchesAuthenticated]_vars

\* A worker has skipped a token that is not in the registry while the
\* other worker reads for an authenticated connection
C27_Witness ==
    \E w, v \in 1..num_thread :
        /\ workers[w].pc = "wait"
        /\ workers[w].token \in Tokens
        /\ ~HasEntry(connections, workers[w].token)
        /\ workers[v].pc = "read"

\* C28: when the reactor has read the first message of a connection, a
\* valid one is answered with the single byte 0 and the token enters the
\* registry, and any other one is answered with the single byte 1, the
\* stream is deregistered and the token is not in the registry, then and
\* ever after.
C28_AuthenticationAnswered ==
    [][\A token \in Tokens :
           /\ (pending[token] # "none" /\ pending'[token] = "none") =>
                  IF ValidFirst(token)
                  THEN /\ sent'[token] = <<0>>
                       /\ HasEntry(connections', token)
                  ELSE /\ sent'[token] = <<1>>
                       /\ token \in deregistered'
                       /\ ~HasEntry(connections', token)
           /\ token \in deregistered =>
                  /\ token \in deregistered'
                  /\ ~HasEntry(connections', token)]_vars

\* The functions of the admin port and of the client port
AdminFunctions == {"new_database", "get_key", "delete_database", "terminate"}
ClientFunctions == {"query", "next"}

\* The function that the request runs which worker w reads in this step
Runs(w, fn) ==
    /\ workers[w].pc = "read"
    /\ workers'[w].pc # "read"
    /\ inbox[workers[w].token].state = "data"
    /\ ran'.token = workers[w].token
    /\ ran'.flag = Head(inbox[workers[w].token].data)
    /\ ran'.fn = fn

\* C29: a request of a connection that was authenticated on the client
\* port runs none of new_database, get_key, delete_database and terminate,
\* and a request of a connection that was authenticated on the admin port
\* runs neither query nor next, whatever its flag byte is; only a request
\* of an admin connection changes the databases or wakes the reactor.
C29_RolesSeparated ==
    [][/\ \A token \in Tokens :
              (~HasEntry(connections, token)
                   /\ HasEntry(connections', token)) =>
                  connections'[token].connection_type = pending[token]
       /\ \A w \in 1..num_thread, fn \in AdminFunctions \cup ClientFunctions :
              Runs(w, fn) =>
                  connections[workers[w].token].connection_type
                      = IF fn \in AdminFunctions THEN "Admin" ELSE "Client"
       /\ (databases' # databases \/ executors' # executors
               \/ TERMINATE \in ready' \ ready) =>
              \E w \in 1..num_thread, fn \in AdminFunctions :
                  /\ Runs(w, fn)
                  /\ connections[workers[w].token].connection_type = "Admin"
      ]_vars

\* A client connection has sent the terminate flag, or an admin connection
\* the query flag, and the request was dispatched
C29_Witness ==
    /\ ran.fn = "invalid"
    /\ \/ ran.connection_type = "Client" /\ ran.flag = TERMINATE_FLAG
       \/ ran.connection_type = "Admin" /\ ran.flag = QUERY_FLAG

\* The poison pills in work, and the workers that have returned
Pills == Cardinality({i \in 1..Len(work) : work[i] = None})
Exited == Cardinality({w \in 1..num_thread : workers[w].pc = "exited"})

\* C30: there is no poison pill and no worker has returned until the
\* reactor handles the wake-up; from then on the pills in work and the
\* workers that have returned are num_thread together; the process exits
\* when every worker has returned; and after a worker has run terminate
\* for an admin connection the process eventually exits.
C30_Terminates ==
    /\ [](/\ reactor = "run" => Pills = 0 /\ Exited = 0
          /\ reactor # "run" => Pills + Exited = num_thread
          /\ reactor = "exited" => Exited = num_thread)
    /\ (ran.fn = "terminate") ~> (reactor = "exited")

\* The command of thread 1 returns in this step, and it is a CREATE
CreateReturns ==
    /\ eret'.op = "create"
    /\ ecall'[1].pc = "idle"
    /\ \/ ecall[1].pc \in {"create_handler", "create_insert"}
       \/ ecall[1].pc = "idle" /\ ecount' # ecount

\* C39: a CREATE that returns an error has changed neither the table map
\* nor the schema table: they are in the step of its return as they were
\* when it started, since no step before the return changes them.
C39_FailedCreateChangesNothing ==
    [][(CreateReturns /\ eret'.status = "err") =>
           /\ tables' = tables
           /\ schema' = schema]_vars

\* The databases of the registry
RegistryNames == {name \in DatabaseNames : databases[name] # NoKey}

\* C31: Server.executors holds an executor exactly for the databases of
\* the registry, after every new_database and delete_database.
C31_ExecutorsFollowRegistry == executors = RegistryNames

\* C32: a new_database request for a name that is not in the registry
\* registers the name with a key and an executor and answers with the
\* status byte 0; a request for a name that is registered answers with
\* another status byte and leaves the registry and the executors as they
\* were.
C32_NewDatabaseAnswers ==
    [][\A w \in 1..num_thread :
           Runs(w, "new_database") =>
               LET token == workers[w].token
                   name == Tail(inbox[token].data)
               IN  IF databases[name] = NoKey
                   THEN /\ sent'[token] = Append(sent[token], 0)
                        /\ databases'[name] \in Keys
                        /\ executors' = executors \cup {name}
                   ELSE /\ Len(sent'[token]) = Len(sent[token]) + 1
                        /\ Last(sent'[token]) # 0
                        /\ databases' = databases
                        /\ executors' = executors]_vars

\* The workers that are not asleep in condvar.wait and have not returned
Awake == {w \in 1..num_thread : workers[w].pc \in {"wait", "read"}}

StartsToSleep(w) == workers[w].pc # "sleep" /\ workers'[w].pc = "sleep"

Removed(token) ==
    /\ connections[token].connection_type # "none"
    /\ connections'[token].connection_type = "none"

\* A worker is at its read of the stream of a token that the peer closed
ReadsZero(token) ==
    \E w \in 1..num_thread :
        /\ workers[w].pc = "read"
        /\ workers[w].token = token
        /\ inbox[token].state = "eof"

\* The last answer on the connection of a token was status 2, it was the
\* n-th answer, and a query of the client has arrived after it
AsksAfterError(token, n) ==
    /\ connections[token].connection_type = "Client"
    /\ Len(sent[token]) = n
    /\ sent[token][n] = 2
    /\ inbox[token].state = "data"
    /\ Head(inbox[token].data) = QUERY_FLAG

\* C34: an answer of status 2 leaves the connection in the registry, only
\* the read of a closed stream takes a connection out of it, and a query
\* that arrives on the connection after an answer of status 2 is answered
C34_ServesAfterError ==
    /\ [][\A token \in Tokens :
              /\ Removed(token) => ReadsZero(token)
              /\ sent'[token] = Append(sent[token], 2) =>
                     /\ connections[token].connection_type # "none"
                     /\ connections'[token] = connections[token]]_vars
    /\ \A token \in Tokens, n \in 1..SessionSends :
           AsksAfterError(token, n) ~> (Len(sent[token]) > n)

\* The database_ids of the rows of the registry table
RowIds == {database_rows[i][1] : i \in 1..Len(database_rows)}

RowsOf(database) ==
    Cardinality({i \in 1..Len(database_rows) :
                    database_rows[i][1] = database})

\* C33: when no call of add_database or remove_database is under way, the
\* registry table holds at most one row for a database_id, and the
\* database_ids of its rows are the keys of the map
C33_TableFollowsMap ==
    (\A t \in 1..RegistryThreads : dcall[t].pc = "idle") =>
        /\ \A database \in DatabaseNames : RowsOf(database) <= 1
        /\ RowIds = RegistryNames

\* The six comparison operators as they are written, with the operators
\* of the plan
Comparisons ==
    <<[text |-> <<61, 61>>, operator |-> "equal"],
      [text |-> <<33, 61>>, operator |-> "not_equal"],
      [text |-> <<60>>, operator |-> "less"],
      [text |-> <<60, 61>>, operator |-> "less_equal"],
      [text |-> <<62>>, operator |-> "bigger"],
      [text |-> <<62, 61>>, operator |-> "bigger_equal"]>>

\* C35: a predicate `a <op> 1` with any of the six comparison operators
\* is split into three words and its plan has the operator of <op>; for
\* `<=` that is less_equal
C35_OperatorsKept ==
    \A k \in 1..Len(Comparisons) :
        (conv.op = "query" /\ conv.text = <<97>> \o Comparisons[k].text \o <<49>>)
            => /\ conv.result.status = "ok"
               /\ conv.result.val.operator = Comparisons[k].operator

\* Thread t waits for a lock that it may not be given: a RwLock may keep
\* a reader waiting while a writer waits
Stuck(t) ==
    \/ /\ WaitsFor(t, "read")
       /\ \E other \in 1..LockThreads :
              \/ "write" \in Range(lheld[other])
              \/ other # t /\ WaitsFor(other, "write")
    \/ /\ WaitsFor(t, "write")
       /\ \E other \in 1..LockThreads :
              Range(lheld[other]) \cap {"read", "write"} # {}
    \/ /\ WaitsFor(t, "cursors")
       /\ \E other \in 1..LockThreads : "cursors" \in Range(lheld[other])

Running == {t \in 1..LockThreads : lcall[t].op # "idle"}

\* C36: a thread that holds the lock of tables and the lock of cursors
\* took the lock of tables first, no thread waits for the lock of tables
\* while it holds the lock of cursors, and as long as an operation is
\* under way some thread in an operation can take its next step
C36_NoDeadlock ==
    /\ \A t \in 1..LockThreads :
           /\ "cursors" \in Range(lheld[t]) =>
                  \/ lheld[t] = <<"cursors">>
                  \/ lheld[t][1] # "cursors"
           /\ (WaitsFor(t, "read") \/ WaitsFor(t, "write")) =>
                  "cursors" \notin Range(lheld[t])
    /\ Running # {} => \E t \in Running : ~Stuck(t)

\* A select waits for the lock of cursors that a next holds, both hold
\* the lock of tables for reading, and a third thread waits to write
C36_Witness ==
    \E a, b, c \in 1..LockThreads :
        /\ lcall[a].op = "select" /\ WaitsFor(a, "cursors")
        /\ lcall[b].op = "next" /\ lheld[b] = <<"read", "cursors">>
        /\ WaitsFor(c, "write")

\* C38: after calls of insert_row and delete_row that all returned Ok, on
\* every data page the slot count, the slots and the rows have room in
\* the PAGE_SIZE bytes of the page without overlapping, and the used
\* value recorded for the page is at most PAGE_SIZE
C38_DirectoryClearOfHeap ==
    \A h \in Range(AllHeaders(TheFile, GetFirst)) :
        Written(TheFile, h)
        => /\ DirectoryAndHeap(PageBytes(read_page(TheFile, h))) <= PAGE_SIZE
           /\ h.used <= PAGE_SIZE

\* How often a row is in a sequence of rows
Times(rows, row) == Cardinality({i \in 1..Len(rows) : rows[i] = row})

\* The rows a full scan of a table returns
Scan(table_name) ==
    IF TableIndex(tables, table_name) = 0 THEN <<>>
    ELSE TableRows(dir[table_name],
                   tables[TableIndex(tables, table_name)].col_data)

\* C37: when no INSERT is under way, a full scan of a table returns every
\* row whose INSERT reported success as often as that was reported,
\* whether the INSERTs ran one after the other or at once
C37_ConcurrentInsertsStored ==
    (\A t \in 1..ExecThreads : ecall[t].pc # "insert_write") =>
        \A table_name \in TableNames :
            \A row \in Range(reported[table_name]) :
                Times(Scan(table_name), Ok(row))
                    = Times(reported[table_name], row)

====
